---- MODULE Spec2Model ----
(***************************************************************************)
(* Job control core of smash (syndir/SMASH): the job table, the launcher,  *)
(* foreground/background execution, reaping and shutdown, together with    *)
(* the child processes and the controlling terminal they act on.           *)
(*                                                                         *)
(* The shell is one sequential process whose position is pc; every child   *)
(* is a record of procs and moves on its own, so the interleavings of the  *)
(* shell with its children are the behaviours of the model.                *)
(***************************************************************************)
EXTENDS Integers, Sequences, FiniteSets, TLC

\* ---------------------------------------------------------------- bounds
MaxJobs == 2          \* jobs created in one session
MaxProcs == 2         \* children forked in one session
MaxCmds == 2          \* commands of one pipeline

\* -------------------------------------------------- program constants
NEWJOB == 0            \* jobs.h NEW (a reserved word of TLA+)
RUNNING == 1
SUSPENDED == 2
EXITED == 3
ABORTED == 4
CANCELED == 5

SIGINT == 2
SIGQUIT == 3
SIGSEGV == 11
SIGTERM == 15
SIGCONT == 18
SIGSTOP == 19
SIGTSTP == 20
SIGCHLD == 17
SIGTTIN == 21
SIGTTOU == 22

EXIT_FAILURE == 1
EINVAL == 22

NUM_BUILTINS == 8

\* pid of the shell; children get the pids after it
ShellPid == 1

\* exit statuses a program may return
ExitCodes == {0, EXIT_FAILURE}
\* signals the user may name in `kill -N jobid`
KillSignals == {SIGTERM, SIGCONT, SIGSTOP}
\* signals the terminal driver sends to its foreground group (^C, ^Z)
TtySignals == {SIGINT, SIGTSTP}

VARIABLES
    interactive,      \* smash.c: unsigned int interactive
    ignored,          \* signals whose disposition in the shell is SIG_IGN
    pc,               \* position of the shell
    jobs,             \* jobs.c: job_t *jobs, the table in list order
    procs,            \* the children forked so far, by pid
    tty_pgrp,         \* foreground process group of the terminal
    tty_attr,         \* mode of the terminal
    last_exit_code,   \* jobs.c: int last_exit_code
    cur,              \* table position of the job exec_job / run_in_foreground works on
    k,                \* loop position in exec_job and wait_for_all
    assigned,         \* history: every <<job, jobid>> jobs_insert has assigned
    sent,             \* signals sent by the last step of the shell
    out,              \* lines written by the last step of the shell
    ret,              \* value returned by the last call of the step: the builtin
                      \* handler, or the job function it hands the job to
    input,            \* the lines io_readline has still to return
    line,             \* smash_main: buf, the line read last (<<>>: not spelled out)
    files             \* the files the redirections name, by path

vars == <<interactive, ignored, pc, jobs, procs, tty_pgrp, tty_attr, last_exit_code,
          cur, k, assigned, sent, out, ret, input, line, files>>

\* smash.c:217-234, the values smash_setup captures
shell_pgid == ShellPid
shell_termattr == "cooked"

\* ------------------------------------------------------------ job table

\* jobs.c:908-932; uid stands for the address of the job_t
jobs_create(uid, ncmds, bg) ==
    [uid |-> uid, jobid |-> 0, pgid |-> 0, status |-> NEWJOB, exitcode |-> 0,
     is_in_bg |-> FALSE, termattr |-> "zero", ncmds |-> ncmds, bgcmd |-> bg]

\* the id of the last job is copied without adding one
jobs_insert_same(js, job) ==
    IF js = <<>>
    THEN <<[job EXCEPT !.jobid = 1]>>
    ELSE Append(js, [job EXCEPT !.jobid = js[Len(js)].jobid])

\* the new job is linked in front of the list instead of behind it
jobs_insert_head(js, job) ==
    IF js = <<>>
    THEN <<[job EXCEPT !.jobid = 1]>>
    ELSE <<[job EXCEPT !.jobid = js[Len(js)].jobid + 1]>> \o js

jobs_insert(js, job) ==
    IF js = <<>>
    THEN <<[job EXCEPT !.jobid = 1]>>
    ELSE Append(js, [job EXCEPT !.jobid = js[Len(js)].jobid + 1])

\* unlinking the job also cuts off the jobs behind it
jobs_remove_tail(js, i) == SubSeq(js, 1, i - 1)

jobs_remove(js, i) ==
    SubSeq(js, 1, i - 1) \o SubSeq(js, i + 1, Len(js))

jobs_lookup_by_jobid(js, id) ==
    IF \E i \in 1..Len(js) : js[i].jobid = id
    THEN CHOOSE i \in 1..Len(js) :
            js[i].jobid = id /\ \A h \in 1..(i - 1) : js[h].jobid # id
    ELSE 0

Finished(status) == status \in {EXITED, ABORTED}

print_job(j) == <<j.uid, j.jobid, j.status, IF Finished(j.status) THEN j.exitcode ELSE 0>>

\* jobs_list from table position i on; the fail-th call of print_job fails
\* (fail = 0: none does)
RECURSIVE jobs_list_from(_, _, _, _)
jobs_list_from(js, i, lines, fail) ==
    IF i > Len(js) THEN [jobs |-> js, out |-> lines, ret |-> 0]
    ELSE IF fail = Len(lines) + 1 THEN [jobs |-> js, out |-> lines, ret |-> -1]
    ELSE IF Finished(js[i].status)
         THEN jobs_list_from(jobs_remove(js, i), i, Append(lines, print_job(js[i])), fail)
         ELSE jobs_list_from(js, i + 1, Append(lines, print_job(js[i])), fail)

\* after a removal the walk steps over the job that follows the removed one
RECURSIVE jobs_list_skip_from(_, _, _, _)
jobs_list_skip_from(js, i, lines, fail) ==
    IF i > Len(js) THEN [jobs |-> js, out |-> lines, ret |-> 0]
    ELSE IF fail = Len(lines) + 1 THEN [jobs |-> js, out |-> lines, ret |-> -1]
    ELSE IF Finished(js[i].status)
         THEN jobs_list_skip_from(jobs_remove(js, i), i + 1, Append(lines, print_job(js[i])), fail)
         ELSE jobs_list_skip_from(js, i + 1, Append(lines, print_job(js[i])), fail)

jobs_list_skip(js, fail) == jobs_list_skip_from(js, 1, <<>>, fail)

\* every listed job is removed, whatever its status
RECURSIVE jobs_list_all_from(_, _, _, _)
jobs_list_all_from(js, i, lines, fail) ==
    IF i > Len(js) THEN [jobs |-> js, out |-> lines, ret |-> 0]
    ELSE IF fail = Len(lines) + 1 THEN [jobs |-> js, out |-> lines, ret |-> -1]
    ELSE jobs_list_all_from(jobs_remove(js, i), i, Append(lines, print_job(js[i])), fail)

jobs_list_all(js, fail) == jobs_list_all_from(js, 1, <<>>, fail)

jobs_list(js, fail) == jobs_list_from(js, 1, <<>>, fail)

\* a child killed by a signal is recorded with the wrong state constant
job_update_status_canceled(j, ws) ==
    CASE ws.kind = "stopped"   -> [j EXCEPT !.status = SUSPENDED]
      [] ws.kind = "continued" -> [j EXCEPT !.status = RUNNING]
      [] ws.kind = "signaled"  -> [j EXCEPT !.status = CANCELED, !.exitcode = ws.val]
      [] ws.kind = "exited"    -> [j EXCEPT !.status = EXITED, !.exitcode = ws.val]

\* the states of a child that exited and of one a signal killed are swapped
job_update_status_swapped(j, ws) ==
    CASE ws.kind = "stopped"   -> [j EXCEPT !.status = SUSPENDED]
      [] ws.kind = "continued" -> [j EXCEPT !.status = RUNNING]
      [] ws.kind = "signaled"  -> [j EXCEPT !.status = EXITED, !.exitcode = ws.val]
      [] ws.kind = "exited"    -> [j EXCEPT !.status = ABORTED, !.exitcode = ws.val]

\* wait status -> job state
job_update_status(j, ws) ==
    CASE ws.kind = "stopped"   -> [j EXCEPT !.status = SUSPENDED]
      [] ws.kind = "continued" -> [j EXCEPT !.status = RUNNING]
      [] ws.kind = "signaled"  -> [j EXCEPT !.status = ABORTED, !.exitcode = ws.val]
      [] ws.kind = "exited"    -> [j EXCEPT !.status = EXITED, !.exitcode = ws.val]

\* ------------------------------------------------- processes and signals

Unreaped(ps) == {p \in DOMAIN ps : ps[p].st # "reaped"}

\* killpg(0, sig) and waitpid(0, ...) name the caller's own group
EffPg(pg) == IF pg = 0 THEN ShellPid ELSE pg

Members(ps, pg) == {p \in Unreaped(ps) : ps[p].pgrp = EffPg(pg)}

\* a process group exists while a process that is not yet reaped is in it
GroupExists(ps, pg) == EffPg(pg) = ShellPid \/ Members(ps, pg) # {}

\* a terminated process keeps its pid and its group until it is reaped
Zombie(pr, kind, val) ==
    [pgrp |-> pr.pgrp, cpc |-> "end", st |-> "zombie", rep |-> "none", pend |-> 0,
     xkind |-> kind, xval |-> val, tgt |-> 0, fg |-> FALSE,
     rout |-> <<>>, rapp |-> FALSE, wr |-> "none", noargv |-> FALSE, fds |-> {},
     ign |-> {}, live |-> <<>>]

Reaped ==
    [pgrp |-> 0, cpc |-> "end", st |-> "reaped", rep |-> "none", pend |-> 0,
     xkind |-> "none", xval |-> 0, tgt |-> 0, fg |-> FALSE,
     rout |-> <<>>, rapp |-> FALSE, wr |-> "none", noargv |-> FALSE, fds |-> {},
     ign |-> {}, live |-> <<>>]

\* one process receives sig: a signal it ignores is discarded, any other
\* has its default action
DeliverTo(pr, sig) ==
    IF pr.st \in {"zombie", "reaped"} \/ sig \in pr.ign THEN pr
    ELSE IF sig = SIGCONT THEN
        IF pr.st = "stop"
        THEN IF pr.pend # 0 THEN Zombie(pr, "signaled", pr.pend)
             ELSE [pr EXCEPT !.st = "run", !.rep = "continued"]
        ELSE pr
    ELSE IF sig \in {SIGSTOP, SIGTSTP} THEN
        IF pr.st = "run" THEN [pr EXCEPT !.st = "stop", !.rep = "stopped"] ELSE pr
    ELSE IF pr.st = "run" THEN Zombie(pr, "signaled", sig)
         ELSE [pr EXCEPT !.pend = sig]

Deliver(ps, targets, sig) ==
    [p \in DOMAIN ps |-> IF p \in targets THEN DeliverTo(ps[p], sig) ELSE ps[p]]

killpg(ps, pg, sig) == Deliver(ps, Members(ps, pg), sig)

\* the shell is in its own group and has the default disposition for SIGTERM
ShellDies(pg, sig) == EffPg(pg) = ShellPid /\ sig = SIGTERM

\* ---------------------------------------------------------------- wait

HasReport(pr, untraced, continued) ==
    \/ pr.st = "zombie"
    \/ untraced /\ pr.rep = "stopped"
    \/ continued /\ pr.rep = "continued"

WaitStatus(pr) ==
    IF pr.st = "zombie" THEN [kind |-> pr.xkind, val |-> pr.xval]
    ELSE [kind |-> pr.rep, val |-> 0]

Consume(pr) ==
    IF pr.st = "zombie" THEN Reaped ELSE [pr EXCEPT !.rep = "none"]

\* children waitpid(pid, ...) selects: pid > 0 that child, 0 the caller's
\* group, -1 any child
Selected(ps, pid) ==
    IF pid > 0 THEN {p \in Unreaped(ps) : p = pid}
    ELSE IF pid = 0 THEN Members(ps, 0)
    ELSE Unreaped(ps)


JobByPgid(js, pid) ==
    IF \E i \in 1..Len(js) : js[i].pgid = pid
    THEN CHOOSE i \in 1..Len(js) :
            js[i].pgid = pid /\ \A h \in 1..(i - 1) : js[h].pgid # pid
    ELSE 0

\* ------------------------------------------------------- the input line

\* a line is a sequence of characters; the texts the model needs, spelled out
W_exit == <<"e", "x", "i", "t">>
W_cd == <<"c", "d">>
W_pwd == <<"p", "w", "d">>
W_echo == <<"e", "c", "h", "o">>
W_jobs == <<"j", "o", "b", "s">>
W_fg == <<"f", "g">>
W_bg == <<"b", "g">>
W_kill == <<"k", "i", "l", "l">>
W_ls == <<"l", "s">>
W_F == <<"F">>

\* builtin.c:41-61, the table of the builtin commands
builtins == <<W_exit, W_cd, W_pwd, W_echo, W_jobs, W_fg, W_bg, W_kill, <<"#">>>>

BUILTIN_DELIMS == {"\t", "\r", "\n", " "}

\* parse.h is not part of the sources at hand; the parser splits commands
\* on `|` and the components of a command on whitespace
COMMAND_DELIMS == {"|"}
COMPONENT_DELIMS == {"\t", "\r", "\n", " "}

isspace(c) == c \in {" ", "\t", "\n", "\r", "\f"}

Drop(s, n) == SubSeq(s, n + 1, Len(s))

Prefix(a, b) == Len(a) <= Len(b) /\ SubSeq(b, 1, Len(a)) = a

\* smash_main: blanks are cut off the end of buf, but never its first character
RECURSIVE TrimRight(_)
TrimRight(s) ==
    IF Len(s) > 1 /\ isspace(s[Len(s)]) THEN TrimRight(SubSeq(s, 1, Len(s) - 1)) ELSE s

\* smash_main: trimmed_buf steps over the blanks at the start
RECURSIVE TrimLeft(_)
TrimLeft(s) == IF s # <<>> /\ isspace(s[1]) THEN TrimLeft(Tail(s)) ELSE s

\* smash_main: the line ends at its first `#`
RECURSIVE StripComment(_)
StripComment(s) ==
    IF s = <<>> \/ s[1] = "#" THEN <<>> ELSE <<s[1]>> \o StripComment(Tail(s))

\* smash_main: trimmed_buf as is_builtin, the builtins and parse_input get it
trimmed_buf(buf) == StripComment(TrimLeft(TrimRight(buf)))

\* strtok / strtok_r called until it returns NULL: the tokens of s that the
\* characters of delims separate, none of them empty
RECURSIVE Tokens(_, _)
Tokens(s, delims) ==
    IF s = <<>> THEN <<>>
    ELSE IF s[1] \in delims THEN Tokens(Tail(s), delims)
    ELSE LET rest == Tokens(Tail(s), delims)
         IN IF Len(s) > 1 /\ s[2] \notin delims
            THEN <<<<s[1]>> \o Head(rest)>> \o Tail(rest)
            ELSE <<<<s[1]>>>> \o rest

\* strncmp(tok, name, strlen(tok)) == 0 && strlen(tok) == strlen(name)
SameName(tok, name) == Prefix(tok, name) /\ Len(tok) = Len(name)

\* only the first entry of the table is compared
is_builtin_first(cmd) ==
    LET toks == Tokens(cmd, BUILTIN_DELIMS)
    IN IF toks = <<>> \/ ~SameName(toks[1], builtins[1]) THEN -1 ELSE 0

\* builtin.c:534-575: index of the builtin the first token names, or -1
is_builtin(cmd) ==
    LET toks == Tokens(cmd, BUILTIN_DELIMS)
        hits == {i \in 0..(NUM_BUILTINS - 1) : SameName(toks[1], builtins[i + 1])}
    IN IF toks = <<>> \/ hits = {} THEN -1
       ELSE CHOOSE i \in hits : \A h \in hits : i <= h

Digit(d) == <<"0", "1", "2", "3", "4", "5", "6", "7", "8", "9">>[d + 1]

\* only the last digit is written
Decimal_units(n) == <<Digit(n % 10)>>

\* dprintf("%d", n) for n >= 0
RECURSIVE Decimal(_)
Decimal(n) == IF n < 10 THEN <<Digit(n)>> ELSE Decimal(n \div 10) \o <<Digit(n % 10)>>

\* the text of one token of echo; no variable is set in the environment
EchoToken(tok, lec) ==
    IF tok[1] = "$"
    THEN IF Tail(tok) = <<"?">> THEN Decimal(lec) ELSE <<>>
    ELSE tok

RECURSIVE EchoTokens(_, _)
EchoTokens(toks, lec) ==
    IF toks = <<>> THEN <<>>
    ELSE EchoToken(Head(toks), lec) \o <<" ">> \o EchoTokens(Tail(toks), lec)

\* builtin.c:250-302: the characters builtin_echo writes to standard output
\* for the line cmd: the tokens behind the first one, a blank after each,
\* and a newline
echo_text(cmd, lec) ==
    LET toks == Tokens(cmd, BUILTIN_DELIMS)
    IN EchoTokens(Tail(toks), lec) \o <<"\n">>

\* ------------------------------------------------------------- the parser

\* command_t after memset: no component, no redirection
NewCommand ==
    [argv |-> <<>>, redirect_stdout |-> <<>>, append_stdout |-> FALSE,
     redirect_stderr |-> <<>>, redirect_stdin |-> <<>>]

\* a redirection operator op at the head of the token t: the path is the
\* rest of t or, when t is the operator alone, the next token (NULL, here
\* <<>>, when there is none, which strdup is then handed)
RedirPath(t, op, toks, i) ==
    IF Len(t) > Len(op) THEN [path |-> Drop(t, Len(op)), next |-> i + 1, null |-> FALSE]
    ELSE IF i < Len(toks) THEN [path |-> toks[i + 1], next |-> i + 2, null |-> FALSE]
    ELSE [path |-> <<>>, next |-> i + 1, null |-> TRUE]

\* parse.c:239-339: the loop over the components of one command, from token
\* i on; bg and null are the flags collected so far
RECURSIVE parse_components(_, _, _, _, _)
parse_components(toks, i, c, bg, null) ==
    IF i > Len(toks) THEN [cmd |-> c, bg |-> bg, null |-> null]
    ELSE IF toks[i][1] = "&" THEN parse_components(toks, i + 1, c, TRUE, null)
    ELSE LET amp == toks[i][Len(toks[i])] = "&"
             t == IF amp THEN SubSeq(toks[i], 1, Len(toks[i]) - 1) ELSE toks[i]
             bg1 == bg \/ amp
         IN IF Prefix(<<">", ">">>, t)
            THEN LET r == RedirPath(t, <<">", ">">>, toks, i)
                 IN parse_components(toks, r.next,
                        [c EXCEPT !.redirect_stdout = r.path, !.append_stdout = TRUE],
                        bg1, null \/ r.null)
            ELSE IF Prefix(<<">">>, t)
            THEN LET r == RedirPath(t, <<">">>, toks, i)
                 IN parse_components(toks, r.next,
                        [c EXCEPT !.redirect_stdout = r.path], bg1, null \/ r.null)
            ELSE IF Prefix(<<"2", ">">>, t)
            THEN LET r == RedirPath(t, <<"2", ">">>, toks, i)
                 IN parse_components(toks, r.next,
                        [c EXCEPT !.redirect_stderr = r.path], bg1, null \/ r.null)
            ELSE IF Prefix(<<"<">>, t)
            THEN LET r == RedirPath(t, <<"<">>, toks, i)
                 IN parse_components(toks, r.next,
                        [c EXCEPT !.redirect_stdin = r.path], bg1, null \/ r.null)
            ELSE parse_components(toks, i + 1,
                        [c EXCEPT !.argv = Append(@, t)], bg1, null)

\* parse.c:221-342: the loop over the commands of the line
RECURSIVE parse_commands(_, _)
parse_commands(texts, ui) ==
    IF texts = <<>> THEN ui
    ELSE LET r == parse_components(Tokens(Head(texts), COMPONENT_DELIMS), 1,
                                   NewCommand, ui.is_background_command, ui.null)
         IN parse_commands(Tail(texts),
                [commands |-> Append(ui.commands, r.cmd),
                 is_background_command |-> r.bg,
                 null |-> r.null])

\* parse.c:196-362; null: strdup was called with NULL for a path
parse_input(buf) ==
    parse_commands(Tokens(buf, COMMAND_DELIMS),
                   [commands |-> <<>>, is_background_command |-> FALSE, null |-> FALSE])

\* ---------------------------------------------------------------- Init

\* the signals the shell may be started with ignored: none, or SIGINT and
\* SIGQUIT as for a command a shell without job control runs with `&`
StartIgnored == {{}, {SIGINT, SIGQUIT}}

\* smash_setup, the signals the shell ignores at the end of setup
smash_setup(inter, inherited) ==
    IF inter
    THEN inherited \cup {SIGINT, SIGQUIT, SIGTSTP, SIGTTIN, SIGTTOU}
    ELSE inherited

Init ==
    /\ interactive \in BOOLEAN
    /\ \E inherited \in StartIgnored : ignored = smash_setup(interactive, inherited)
    /\ pc = "reap1"
    /\ jobs = <<>>
    /\ procs = <<>>
    /\ tty_pgrp = shell_pgid
    /\ tty_attr = shell_termattr
    /\ last_exit_code = 0
    /\ cur = 0
    /\ k = 0
    /\ assigned = {}
    /\ sent = <<>>
    /\ out = <<>>
    /\ ret = 0
    /\ input = <<>>
    /\ line = <<>>
    /\ files = <<>>

\* ----------------------------------------------------------- main loop

ReapNext(at) == IF at = "reap1" THEN "read" ELSE "dispatch"

\* one turn of the loop of smash_wait_all: waitpid(-1, WNOHANG | WUNTRACED |
\* WCONTINUED) reports child p
smash_wait_all_reap(p) ==
    /\ pc \in {"reap1", "reap2"}
    /\ p \in Selected(procs, -1)
    /\ HasReport(procs[p], TRUE, TRUE)
    /\ LET j == JobByPgid(jobs, p)
       IN /\ procs' = [procs EXCEPT ![p] = Consume(@)]
          /\ IF j = 0
             THEN jobs' = jobs /\ pc' = ReapNext(pc) /\ ret' = -1
             ELSE /\ jobs' = [jobs EXCEPT ![j] = job_update_status(@, WaitStatus(procs[p]))]
                  /\ pc' = pc /\ ret' = 0
    /\ sent' = <<>> /\ out' = <<>>
    /\ UNCHANGED <<input, line, files, interactive, ignored, tty_pgrp, tty_attr, last_exit_code, cur, k, assigned>>

\* waitpid finds no child with a pending change: the loop ends
smash_wait_all_end ==
    /\ pc \in {"reap1", "reap2"}
    /\ \A p \in Selected(procs, -1) : ~HasReport(procs[p], TRUE, TRUE)
    /\ pc' = ReapNext(pc)
    /\ sent' = <<>> /\ out' = <<>> /\ ret' = 0
    /\ UNCHANGED <<input, line, files, interactive, ignored, jobs, procs, tty_pgrp, tty_attr, last_exit_code,
                   cur, k, assigned>>

\* io_readline returns a line, or NULL at end of input (main returns and the
\* atexit handler runs)
smash_main_readline(eof) ==
    /\ pc = "read"
    /\ pc' = IF eof THEN "cancel" ELSE "reap2"
    /\ sent' = <<>> /\ out' = <<>> /\ ret' = 0
    /\ UNCHANGED <<input, line, files, interactive, ignored, jobs, procs, tty_pgrp, tty_attr, last_exit_code,
                   cur, k, assigned>>

\* ------------------------------------------------------ job controller

tcsetpgrp_ok(ps, pg) == interactive /\ pg # 0 /\ Members(ps, pg) # {}

AlreadyForeground(job) == job.status = RUNNING /\ ~job.is_in_bg

\* the previous status is not looked at: cont alone decides on the SIGCONT
run_in_foreground_cont(js, ps, i, cont) ==
    LET job == js[i]
        js1 == [js EXCEPT ![i].status = RUNNING, ![i].is_in_bg = FALSE]
    IN IF job.status \notin {NEWJOB, SUSPENDED, RUNNING} \/ AlreadyForeground(job)
       THEN /\ jobs' = js /\ procs' = ps /\ pc' = "reap1" /\ cur' = 0 /\ k' = 0
            /\ sent' = <<>> /\ ret' = -1
            /\ UNCHANGED <<tty_pgrp, tty_attr>>
       ELSE IF ~tcsetpgrp_ok(ps, job.pgid)
       THEN /\ jobs' = js1 /\ procs' = ps /\ pc' = "cancel" /\ cur' = 0 /\ k' = 0
            /\ sent' = <<>> /\ ret' = 0
            /\ UNCHANGED <<tty_pgrp, tty_attr>>
       ELSE /\ jobs' = js1
            /\ tty_pgrp' = job.pgid
            /\ tty_attr' = IF cont THEN job.termattr ELSE tty_attr
            /\ procs' = IF cont THEN killpg(ps, job.pgid, SIGCONT) ELSE ps
            /\ sent' = IF cont THEN <<<<job.pgid, SIGCONT>>>> ELSE <<>>
            /\ pc' = "fgwait" /\ cur' = i /\ k' = 0 /\ ret' = 0

\* run_in_foreground up to its call of job_wait, on table js and processes ps
run_in_foreground(js, ps, i, cont) ==
    LET job == js[i]
        js1 == [js EXCEPT ![i].status = RUNNING, ![i].is_in_bg = FALSE]
        resume == cont /\ job.status # RUNNING
    IN IF job.status \notin {NEWJOB, SUSPENDED, RUNNING} \/ AlreadyForeground(job)
       THEN /\ jobs' = js /\ procs' = ps /\ pc' = "reap1" /\ cur' = 0 /\ k' = 0
            /\ sent' = <<>> /\ ret' = -1
            /\ UNCHANGED <<tty_pgrp, tty_attr>>
       ELSE IF ~tcsetpgrp_ok(ps, job.pgid)
       THEN \* exit(EXIT_FAILURE)
            /\ jobs' = js1 /\ procs' = ps /\ pc' = "cancel" /\ cur' = 0 /\ k' = 0
            /\ sent' = <<>> /\ ret' = 0
            /\ UNCHANGED <<tty_pgrp, tty_attr>>
       ELSE /\ jobs' = js1
            /\ tty_pgrp' = job.pgid
            /\ tty_attr' = IF resume THEN job.termattr ELSE tty_attr
            /\ procs' = IF resume THEN killpg(ps, job.pgid, SIGCONT) ELSE ps
            /\ sent' = IF resume THEN <<<<job.pgid, SIGCONT>>>> ELSE <<>>
            /\ pc' = "fgwait" /\ cur' = i /\ k' = 0 /\ ret' = 0

run_in_background(js, ps, i, cont) ==
    LET job == js[i]
        js1 == [js EXCEPT ![i].status = RUNNING, ![i].is_in_bg = TRUE]
    IN IF job.status \notin {NEWJOB, SUSPENDED}
       THEN /\ jobs' = js /\ procs' = ps /\ pc' = "reap1" /\ sent' = <<>> /\ ret' = -1
       ELSE IF cont /\ ~GroupExists(ps, job.pgid)
       THEN \* exit(EXIT_FAILURE)
            /\ jobs' = js1 /\ procs' = ps /\ pc' = "cancel" /\ sent' = <<>> /\ ret' = 0
       ELSE /\ jobs' = js1
            /\ procs' = IF cont THEN killpg(ps, job.pgid, SIGCONT) ELSE ps
            /\ sent' = IF cont THEN <<<<job.pgid, SIGCONT>>>> ELSE <<>>
            /\ pc' = "reap1" /\ ret' = 0

\* job_wait: waitpid(job->pgid, &status, WUNTRACED) and job_update_status;
\* the job as it is when the call returns and the processes after it
job_wait_ready(ps, job) ==
    \/ Selected(ps, job.pgid) = {}
    \/ \E p \in Selected(ps, job.pgid) : HasReport(ps[p], TRUE, FALSE)

job_wait_results(ps, job) ==
    IF Selected(ps, job.pgid) = {}
    THEN {[job |-> job, procs |-> ps]}
    ELSE {[job |-> job_update_status(job, WaitStatus(ps[p])),
           procs |-> [ps EXCEPT ![p] = Consume(@)]] :
             p \in {q \in Selected(ps, job.pgid) : HasReport(ps[q], TRUE, FALSE)}}

\* restore_shell_control(&job->termattr)
restore_shell_control(job) ==
    /\ tty_pgrp' = shell_pgid
    /\ tty_attr' = shell_termattr

\* run_in_foreground from the return of job_wait on
run_in_foreground_wait ==
    /\ pc = "fgwait"
    /\ job_wait_ready(procs, jobs[cur])
    /\ \E r \in job_wait_results(procs, jobs[cur]) :
          /\ jobs' = [jobs EXCEPT ![cur] = [r.job EXCEPT !.termattr = tty_attr]]
          /\ procs' = r.procs
          /\ restore_shell_control(r.job)
          /\ last_exit_code' = IF r.job.status = EXITED THEN r.job.exitcode
                               ELSE last_exit_code
          /\ out' = IF r.job.status = SUSPENDED THEN <<print_job(r.job)>> ELSE <<>>
    /\ pc' = "reap1" /\ cur' = 0 /\ k' = 0
    /\ sent' = <<>> /\ ret' = 0
    /\ UNCHANGED <<input, line, files, interactive, ignored, assigned>>

\* exec_job, not interactive: job_wait and last_exit_code = job->exitcode
exec_job_wait ==
    /\ pc = "niwait"
    /\ job_wait_ready(procs, jobs[cur])
    /\ \E r \in job_wait_results(procs, jobs[cur]) :
          /\ jobs' = [jobs EXCEPT ![cur] = r.job]
          /\ procs' = r.procs
          /\ last_exit_code' = r.job.exitcode
    /\ pc' = "reap1" /\ cur' = 0 /\ k' = 0
    /\ sent' = <<>> /\ out' = <<>> /\ ret' = 0
    /\ UNCHANGED <<input, line, files, interactive, ignored, tty_pgrp, tty_attr, assigned>>


\* ------------------------------------------------------------ launcher

NextPid == ShellPid + Cardinality(DOMAIN procs) + 1

\* a command of a line that is not spelled out: a program name, no redirection
PlainCommand == [NewCommand EXCEPT !.argv = <<W_ls>>]

\* job->ui->commands, the n-th command of the line the job was made from
CommandOf(n) ==
    IF line = <<>> THEN PlainCommand ELSE parse_input(trimmed_buf(line)).commands[n]

\* The pipe between the n-th command of a pipeline and the next one is pipe
\* n; <<n, "r">> and <<n, "w">> are its two ends.
\* exec_job, the pipe ends open in the shell when it forks the n-th command
\* of ncmds: in_fd, the read end of the pipe before it, and fds[0], fds[1]
\* of the pipe it has just made
pipe_fds(n, ncmds) ==
    (IF n > 1 THEN {<<n - 1, "r">>} ELSE {})
        \cup (IF n < ncmds THEN {<<n, "r">>, <<n, "w">>} ELSE {})

\* the pipe ends open in the shell: in the loop of exec_job, before the fork
\* of the k-th command in_fd alone, after it (up to the close calls that
\* follow the parent's setpgid) what the child has inherited
shell_fds ==
    IF pc = "fork" THEN (IF k > 1 THEN {<<k - 1, "r">>} ELSE {})
    ELSE IF pc = "psetpgid" THEN pipe_fds(k, jobs[cur].ncmds)
    ELSE {}

\* the line is no builtin: parse_input gives ncmds commands and the flag bg;
\* jobs_create, and exec_job up to its loop over the commands
exec_job_insert(ncmds, bg) ==
    /\ pc = "dispatch"
    /\ Cardinality(assigned) < MaxJobs
    /\ Cardinality(DOMAIN procs) + ncmds <= MaxProcs
    /\ ncmds = 0 => ~bg      \* a line without a command has no token to carry `&`
    /\ LET uid == Cardinality(assigned) + 1
           js == jobs_insert(jobs, jobs_create(uid, ncmds, bg))
       IN /\ jobs' = js
          /\ assigned' = assigned \cup {<<uid, js[Len(js)].jobid>>}
          /\ IF ncmds = 0
             THEN pc' = "reap1" /\ cur' = 0 /\ k' = 0 /\ ret' = -1
             ELSE pc' = "fork" /\ cur' = Len(js) /\ k' = 1 /\ ret' = 0
    /\ sent' = <<>> /\ out' = <<>>
    /\ UNCHANGED <<input, line, files, interactive, ignored, procs, tty_pgrp, tty_attr, last_exit_code>>

\* exec_job after its loop
exec_job_run(js, ps) ==
    IF ~interactive
    THEN /\ jobs' = js /\ procs' = ps /\ pc' = "niwait" /\ cur' = cur /\ k' = 0
         /\ sent' = <<>> /\ ret' = 0
         /\ UNCHANGED <<tty_pgrp, tty_attr>>
    ELSE IF js[cur].bgcmd
    THEN /\ run_in_background(js, ps, cur, FALSE)
         /\ cur' = 0 /\ k' = 0
         /\ UNCHANGED <<tty_pgrp, tty_attr>>
    ELSE run_in_foreground(js, ps, cur, FALSE)

\* exec_job after the k-th command is forked (and, interactively, put in
\* its group)
exec_job_next(js, ps) ==
    IF k < js[cur].ncmds
    THEN /\ jobs' = js /\ procs' = ps /\ pc' = "fork" /\ cur' = cur /\ k' = k + 1
         /\ sent' = <<>> /\ ret' = 0
         /\ UNCHANGED <<tty_pgrp, tty_attr>>
    ELSE exec_job_run(js, ps)

\* the test of the status is missing: every job is signalled and marked
IsLive_any(status) == TRUE

IsLive(status) == status \in {RUNNING, SUSPENDED}

\* the pgids of the jobs of js that cancel_all_jobs signals, in table order
RECURSIVE live_pgids(_)
live_pgids(js) ==
    IF js = <<>> THEN <<>>
    ELSE (IF IsLive(Head(js).status) THEN <<Head(js).pgid>> ELSE <<>>)
             \o live_pgids(Tail(js))

\* every child is launched as one of a foreground job
foreground_always(job) == TRUE

\* exec_job, the third argument of launch_child:
\* !job->ui->is_background_command
foreground(job) == ~job.bgcmd

\* fork() of the k-th command; both sides set job->pgid
exec_job_fork ==
    /\ pc = "fork"
    /\ LET pid == NextPid
           pgid == IF k = 1 THEN pid ELSE jobs[cur].pgid
           cmd == CommandOf(k)
           child == [pgrp |-> ShellPid,
                     cpc |-> IF interactive THEN "setpgid" ELSE "exec",
                     st |-> "run", rep |-> "none", pend |-> 0,
                     xkind |-> "none", xval |-> 0,
                     tgt |-> pgid, fg |-> foreground(jobs[cur]),
                     rout |-> cmd.redirect_stdout, rapp |-> cmd.append_stdout,
                     \* the pipe to the next command takes the place of the file
                     wr |-> IF cmd.redirect_stdout # <<>> /\ k = jobs[cur].ncmds
                            THEN "file" ELSE "none",
                     noargv |-> cmd.argv = <<>>,
                     \* dup2 and close keep in_fd and out_fd open as standard
                     \* input and output; fds[0] is closed nowhere
                     fds |-> pipe_fds(k, jobs[cur].ncmds),
                     \* fork copies the dispositions of the shell
                     ign |-> ignored,
                     \* fork copies the job table; what the exit handler
                     \* reads of it are the groups of the live jobs
                     live |-> live_pgids(jobs)]
           js == [jobs EXCEPT ![cur].pgid = pgid]
           ps == (pid :> child) @@ procs
       IN IF interactive
          THEN /\ jobs' = js /\ procs' = ps /\ pc' = "psetpgid"
               /\ sent' = <<>> /\ ret' = 0
               /\ UNCHANGED <<cur, k, tty_pgrp, tty_attr>>
          ELSE exec_job_next(js, ps)
    /\ out' = <<>>
    /\ UNCHANGED <<input, line, files, interactive, ignored, last_exit_code, assigned>>

\* the call changes no group
setpgid_none(ps, pid, pgid) == ps

\* setpgid(pid, pgid): moves a process that has not replaced its image into
\* an existing group of the session, or into a new group of its own
setpgid(ps, pid, pgid) ==
    IF /\ pid \in Unreaped(ps)
       /\ ps[pid].cpc \in {"setpgid", "tcsetpgrp", "exec"}
       /\ (pgid = pid \/ Members(ps, pgid) # {})
    THEN [ps EXCEPT ![pid].pgrp = pgid]
    ELSE ps

\* the parent goes on without its call of setpgid
exec_job_setpgid_skip ==
    /\ pc = "psetpgid"
    /\ exec_job_next(jobs, procs)
    /\ out' = <<>>
    /\ UNCHANGED <<input, line, files, interactive, ignored, last_exit_code, assigned>>

\* the parent's setpgid(ppid, pgid) for the child it has just forked
exec_job_setpgid ==
    /\ pc = "psetpgid"
    /\ exec_job_next(jobs, setpgid(procs, NextPid - 1, jobs[cur].pgid))
    /\ out' = <<>>
    /\ UNCHANGED <<input, line, files, interactive, ignored, last_exit_code, assigned>>

\* launch_child opens the file of `>` / `>>`: O_APPEND on a file that is
\* there, creat (a new or emptied file) otherwise
open_stdout(fs, pr) ==
    IF pr.rout = <<>> THEN fs
    ELSE IF pr.rapp /\ pr.rout \in DOMAIN fs THEN fs
    ELSE [q \in DOMAIN fs \cup {pr.rout} |-> IF q = pr.rout THEN <<>> ELSE fs[q]]

\* cancel_all_jobs in child p, on its copy of the job table: SIGCONT, then
\* SIGTERM to the group of every job of live; group 0 is the child's own.
\* The loop ends where the child's own SIGTERM kills it.
RECURSIVE child_cancel(_, _, _, _)
child_cancel(ps, p, live, dead) ==
    IF live = <<>> \/ ps[p].st # "run" THEN [procs |-> ps, dead |-> dead]
    ELSE LET pg == IF Head(live) = 0 THEN ps[p].pgrp ELSE Head(live)
             okc == GroupExists(ps, pg)
             ps1 == IF okc THEN killpg(ps, pg, SIGCONT) ELSE ps
             okt == okc /\ GroupExists(ps1, pg)
             ps2 == IF okt THEN killpg(ps1, pg, SIGTERM) ELSE ps1
         IN child_cancel(ps2, p, Tail(live), dead \/ (okt /\ ShellDies(pg, SIGTERM)))

\* exit(EXIT_FAILURE) in child p of launch_child: the exit handler
\* smash_atexit, installed before the fork, runs in the child.
\* cancel_all_jobs signals the live jobs of the child's table; wait_for_all
\* then waits for the first of them, which is no child of this process:
\* waitpid fails and the child ends in _exit(-1). With no live job the
\* handler returns and the status is EXIT_FAILURE.
child_exit_failure(ps, p) ==
    LET r == child_cancel(ps, p, ps[p].live, FALSE)
    IN [procs |-> IF r.procs[p].st # "run" THEN r.procs
                  ELSE [r.procs EXCEPT ![p] =
                           Zombie(@, "exited",
                                  IF ps[p].live = <<>> THEN EXIT_FAILURE ELSE (-1) % 256)],
        dead |-> r.dead]

\* the child keeps the dispositions it has
reset_signals_none(ign) == ign

\* launch_child, the dispositions of the child when it calls execvp: in
\* interactive mode the six sigaction calls have made them SIG_DFL
reset_signals(ign) ==
    IF interactive
    THEN ign \ {SIGINT, SIGQUIT, SIGTSTP, SIGTTIN, SIGTTOU, SIGCHLD}
    ELSE ign

\* launch_child, one step of child p: setpgid, tcsetpgrp, then the reset of
\* the dispositions, the redirection of standard output, the argv array and
\* execvp (ok: the image is replaced). With no component, c is NULL where
\* argv[0] = c->component reads it: the child is killed by SIGSEGV (ok) or
\* goes on to an execvp that fails.
launch_child(p, ok) ==
    /\ p \in DOMAIN procs
    /\ procs[p].st = "run"
    /\ procs[p].cpc \in {"setpgid", "tcsetpgrp", "exec"}
    /\ LET pr == procs[p]
           fail == child_exit_failure(procs, p)
           died == /\ procs' = fail.procs
                   /\ pc' = IF fail.dead THEN "dead" ELSE pc
       IN CASE pr.cpc = "setpgid" ->
                 /\ procs' = [setpgid(procs, p, pr.tgt) EXCEPT
                                 ![p].cpc = IF pr.fg THEN "tcsetpgrp" ELSE "exec"]
                 /\ UNCHANGED <<pc, tty_pgrp, files>>
            [] pr.cpc = "tcsetpgrp" ->
                 IF Members(procs, pr.tgt) # {}
                 THEN /\ tty_pgrp' = pr.tgt
                      /\ procs' = [procs EXCEPT ![p].cpc = "exec"]
                      /\ UNCHANGED <<pc, files>>
                 ELSE /\ died
                      /\ UNCHANGED <<tty_pgrp, files>>
            [] pr.cpc = "exec" ->
                 /\ files' = open_stdout(files, pr)
                 /\ IF ok
                    THEN /\ procs' = [procs EXCEPT ![p] =
                                         IF pr.noargv THEN Zombie(pr, "signaled", SIGSEGV)
                                         ELSE [pr EXCEPT !.cpc = "prog",
                                                         !.ign = reset_signals(@),
                                                         !.live = <<>>]]
                         /\ pc' = pc
                    ELSE died
                 /\ UNCHANGED tty_pgrp
    /\ UNCHANGED <<input, line, interactive, ignored, jobs, tty_attr, last_exit_code, cur, k,
                   assigned, sent, out, ret>>

\* ---------------------------------------------- programs and terminal

\* the program run by child p exits with status code
child_exit(p, code) ==
    /\ p \in DOMAIN procs
    /\ procs[p].st = "run"
    /\ procs[p].cpc = "prog"
    /\ procs' = [procs EXCEPT ![p] = Zombie(@, "exited", code)]
    /\ UNCHANGED <<input, line, files, interactive, ignored, pc, jobs, tty_pgrp, tty_attr, last_exit_code,
                   cur, k, assigned, sent, out, ret>>

\* the program run by child p stops: it sends SIGSTOP to itself
child_stop(p) ==
    /\ p \in DOMAIN procs
    /\ procs[p].st = "run"
    /\ procs[p].cpc = "prog"
    /\ procs' = Deliver(procs, {p}, SIGSTOP)
    /\ UNCHANGED <<input, line, files, interactive, ignored, pc, jobs, tty_pgrp, tty_attr,
                   last_exit_code, cur, k, assigned, sent, out, ret>>

\* a program of the terminal's foreground group changes the terminal mode
child_tcsetattr(p) ==
    /\ interactive
    /\ p \in DOMAIN procs
    /\ procs[p].st = "run"
    /\ procs[p].cpc = "prog"
    /\ procs[p].pgrp = tty_pgrp
    /\ tty_attr # "raw"
    /\ tty_attr' = "raw"
    /\ UNCHANGED <<input, line, files, interactive, ignored, pc, jobs, procs, tty_pgrp, last_exit_code,
                   cur, k, assigned, sent, out, ret>>

\* ^C or ^Z: the terminal signals its foreground group; the shell and the
\* children that have not yet reset their dispositions ignore both signals
tty_signal(sig) ==
    /\ interactive
    /\ LET targets == {p \in Members(procs, tty_pgrp) :
                          procs[p].cpc = "prog" /\ procs[p].st # "zombie"}
       IN /\ targets # {}
          /\ procs' = Deliver(procs, targets, sig)
          /\ procs' # procs
    /\ UNCHANGED <<input, line, files, interactive, ignored, pc, jobs, tty_pgrp, tty_attr, last_exit_code,
                   cur, k, assigned, sent, out, ret>>


\* ------------------------------------------------------------- builtins

JobIds == 0..MaxJobs

\* echo, cd, pwd, #: builtins that touch neither the table nor a process
builtin_other ==
    /\ pc = "dispatch"
    /\ pc' = "reap1"
    /\ sent' = <<>> /\ out' = <<>> /\ ret' = 0
    /\ UNCHANGED <<input, line, files, interactive, ignored, jobs, procs, tty_pgrp, tty_attr, last_exit_code,
                   cur, k, assigned>>

\* exit; bare: the line is exactly `exit`
builtin_exit(bare) ==
    /\ pc = "dispatch"
    /\ pc' = IF bare THEN "cancel" ELSE "reap1"
    /\ ret' = IF bare THEN 0 ELSE -EINVAL
    /\ sent' = <<>> /\ out' = <<>>
    /\ UNCHANGED <<input, line, files, interactive, ignored, jobs, procs, tty_pgrp, tty_attr, last_exit_code,
                   cur, k, assigned>>

\* jobs; the fail-th job line cannot be written (0: all are)
builtin_jobs(fail) ==
    /\ pc = "dispatch"
    /\ LET r == jobs_list(jobs, fail)
       IN jobs' = r.jobs /\ out' = r.out
    /\ pc' = "reap1"
    /\ sent' = <<>> /\ ret' = 0
    /\ UNCHANGED <<input, line, files, interactive, ignored, procs, tty_pgrp, tty_attr, last_exit_code,
                   cur, k, assigned>>

\* fg id
builtin_fg(id) ==
    /\ pc = "dispatch"
    /\ LET j == jobs_lookup_by_jobid(jobs, id)
       IN IF j = 0
          THEN /\ pc' = "reap1" /\ ret' = -EINVAL /\ sent' = <<>>
               /\ UNCHANGED <<jobs, procs, tty_pgrp, tty_attr, cur, k>>
          ELSE /\ run_in_foreground(jobs, procs, j, TRUE)
    /\ out' = <<>>
    /\ UNCHANGED <<input, line, files, interactive, ignored, last_exit_code, assigned>>

\* bg id
builtin_bg(id) ==
    /\ pc = "dispatch"
    /\ LET j == jobs_lookup_by_jobid(jobs, id)
       IN IF j = 0
          THEN /\ pc' = "reap1" /\ ret' = -EINVAL /\ sent' = <<>>
               /\ UNCHANGED <<jobs, procs>>
          ELSE /\ run_in_background(jobs, procs, j, TRUE)
    /\ out' = <<>>
    /\ UNCHANGED <<input, line, files, interactive, ignored, tty_pgrp, tty_attr, last_exit_code, cur, k, assigned>>

\* the job is marked at once with the state the signal brings about
builtin_kill_marks(sig, id) ==
    /\ pc = "dispatch"
    /\ LET j == jobs_lookup_by_jobid(jobs, id)
       IN IF j = 0 \/ (j # 0 /\ jobs[j].status \notin {SUSPENDED, RUNNING})
          THEN /\ pc' = "reap1" /\ ret' = -EINVAL /\ sent' = <<>>
               /\ UNCHANGED <<jobs, procs>>
          ELSE IF ~GroupExists(procs, jobs[j].pgid)
          THEN /\ pc' = "reap1" /\ ret' = 0 /\ sent' = <<>>
               /\ UNCHANGED <<jobs, procs>>
          ELSE /\ procs' = killpg(procs, jobs[j].pgid, sig)
               /\ jobs' = [jobs EXCEPT ![j].status =
                              IF sig = SIGSTOP THEN SUSPENDED
                              ELSE IF sig = SIGCONT THEN RUNNING ELSE ABORTED]
               /\ sent' = <<<<jobs[j].pgid, sig>>>>
               /\ pc' = IF ShellDies(jobs[j].pgid, sig) THEN "dead" ELSE "reap1"
               /\ ret' = 0
    /\ out' = <<>>
    /\ UNCHANGED <<input, line, files, interactive, ignored, tty_pgrp, tty_attr, last_exit_code,
                   cur, k, assigned>>

\* kill -sig id; a SIGSTOP to the shell's own group stops the shell until
\* it is continued from outside, which changes nothing here
builtin_kill(sig, id) ==
    /\ pc = "dispatch"
    /\ LET j == jobs_lookup_by_jobid(jobs, id)
       IN IF j = 0 \/ (j # 0 /\ jobs[j].status \notin {SUSPENDED, RUNNING})
          THEN /\ pc' = "reap1" /\ ret' = -EINVAL /\ sent' = <<>>
               /\ UNCHANGED procs
          ELSE IF ~GroupExists(procs, jobs[j].pgid)
          THEN /\ pc' = "reap1" /\ ret' = 0 /\ sent' = <<>>
               /\ UNCHANGED procs
          ELSE /\ procs' = killpg(procs, jobs[j].pgid, sig)
               /\ sent' = <<<<jobs[j].pgid, sig>>>>
               /\ pc' = IF ShellDies(jobs[j].pgid, sig) THEN "dead" ELSE "reap1"
               /\ ret' = 0
    /\ out' = <<>>
    /\ UNCHANGED <<input, line, files, interactive, ignored, jobs, tty_pgrp, tty_attr, last_exit_code,
                   cur, k, assigned>>

\* ------------------------------------------- arguments of fg, bg, kill

DigitChars == {"0", "1", "2", "3", "4", "5", "6", "7", "8", "9"}

DigitValue(c) == CHOOSE d \in 0..9 : Digit(d) = c

\* the digits at the start of s, read as a decimal number after acc
RECURSIVE strtol_digits(_, _)
strtol_digits(s, acc) ==
    IF s # <<>> /\ s[1] \in DigitChars
    THEN strtol_digits(Tail(s), [val |-> 10 * acc.val + DigitValue(s[1]),
                                 endp |-> Tail(acc.endp)])
    ELSE acc

\* strtol(s, &endp, 10): blanks, a sign, digits; where there is no digit
\* endp is s itself (ok is FALSE)
strtol(s) ==
    LET t == TrimLeft(s)
        neg == t # <<>> /\ t[1] = "-"
        u == IF t # <<>> /\ t[1] \in {"-", "+"} THEN Tail(t) ELSE t
        n == strtol_digits(u, [val |-> 0, endp |-> u])
    IN IF n.endp = u THEN [ok |-> FALSE, val |-> 0, endp |-> s]
       ELSE [ok |-> TRUE, val |-> IF neg THEN -n.val ELSE n.val, endp |-> n.endp]

\* with no argument, the job of the highest id is meant
job_arg_last(cmd, name) ==
    LET n == strtol(Drop(cmd, Len(name) + 1))
    IN IF Prefix(name \o <<" ">>, cmd) /\ n.ok THEN [ok |-> TRUE, id |-> n.val]
       ELSE [ok |-> TRUE, id |-> IF jobs = <<>> THEN 0 ELSE jobs[Len(jobs)].jobid]

\* builtin_fg, builtin_bg: the job id in cmd, which must start with the
\* name, one space and a number
job_arg(cmd, name) ==
    LET n == strtol(Drop(cmd, Len(name) + 1))
    IN IF Prefix(name \o <<" ">>, cmd) /\ n.ok THEN [ok |-> TRUE, id |-> n.val]
       ELSE [ok |-> FALSE, id |-> 0]

\* builtin_kill: the signal number and the job id in cmd, `kill -N jobid`
kill_args(cmd) ==
    LET a == TrimLeft(Drop(cmd, Len(W_kill) + 1))
        sg == strtol(Tail(a))
        jb == strtol(sg.endp)
    IN IF Prefix(W_kill \o <<" ">>, cmd) /\ a # <<>> /\ a[1] = "-" /\ sg.ok /\ jb.ok
       THEN [ok |-> TRUE, signum |-> sg.val, id |-> jb.val]
       ELSE [ok |-> FALSE, signum |-> 0, id |-> 0]

\* the usage message is written to standard error
builtin_usage ==
    /\ pc = "dispatch"
    /\ pc' = "reap1" /\ ret' = -EINVAL /\ sent' = <<>> /\ out' = <<>>
    /\ UNCHANGED <<input, line, files, interactive, ignored, jobs, procs, tty_pgrp, tty_attr,
                   last_exit_code, cur, k, assigned>>

\* builtins[pos].callback(trimmed_buf) for the lines of fg, bg and kill
builtin_fg_cmd(cmd) ==
    LET a == job_arg(cmd, W_fg) IN IF a.ok THEN builtin_fg(a.id) ELSE builtin_usage

builtin_bg_cmd(cmd) ==
    LET a == job_arg(cmd, W_bg) IN IF a.ok THEN builtin_bg(a.id) ELSE builtin_usage

builtin_kill_cmd(cmd) ==
    LET a == kill_args(cmd)
    IN IF a.ok THEN builtin_kill(a.signum, a.id) ELSE builtin_usage

\* the texts behind the name of fg and bg: none, a word that is no number,
\* a negative number, the ids of JobIds
IdTexts == {<<>>, <<" ", "x">>, <<" ", "-", "1">>} \cup {<<" ">> \o Decimal(id) : id \in JobIds}

FgCmds == {W_fg \o t : t \in IdTexts}

BgCmds == {W_bg \o t : t \in IdTexts}

\* the lines of kill: without argument, without `-`, without job id, with a
\* word for the signal or for the job, and `kill -N jobid`
KillCmds ==
    {W_kill, W_kill \o <<" ", "1">>, W_kill \o <<" ", "-", "1", "5">>,
     W_kill \o <<" ", "-", "x", " ", "1">>, W_kill \o <<" ", "-", "1", "5", " ", "x">>}
        \cup {W_kill \o <<" ", "-">> \o Decimal(sig) \o <<" ">> \o Decimal(id) :
                 sig \in KillSignals, id \in JobIds}

\* ------------------------------------------------------------- shutdown

\* cancel_all_jobs from table position i on; snt: the signals sent so far
RECURSIVE cancel_from(_, _, _, _)
cancel_from(js, ps, i, snt) ==
    IF i > Len(js) THEN [jobs |-> js, procs |-> ps, sent |-> snt, dead |-> FALSE]
    ELSE IF IsLive(js[i].status)
    THEN LET pg == js[i].pgid
             okc == GroupExists(ps, pg)
             ps1 == IF okc THEN killpg(ps, pg, SIGCONT) ELSE ps
             okt == okc /\ GroupExists(ps1, pg)
             ps2 == IF okt THEN killpg(ps1, pg, SIGTERM) ELSE ps1
             snt1 == snt \o (IF okc THEN <<<<pg, SIGCONT>>>> ELSE <<>>)
                         \o (IF okt THEN <<<<pg, SIGTERM>>>> ELSE <<>>)
         IN IF okt /\ ShellDies(pg, SIGTERM)
            THEN [jobs |-> js, procs |-> ps2, sent |-> snt1, dead |-> TRUE]
            ELSE cancel_from([js EXCEPT ![i].status = CANCELED], ps2, i + 1, snt1)
    ELSE cancel_from(js, ps, i + 1, snt)

\* smash_atexit: cancel_all_jobs()
cancel_all_jobs ==
    /\ pc = "cancel"
    /\ LET r == cancel_from(jobs, procs, 1, <<>>)
       IN /\ jobs' = r.jobs /\ procs' = r.procs /\ sent' = r.sent
          /\ pc' = IF r.dead THEN "dead" ELSE "waitall"
          /\ k' = IF r.dead THEN 0 ELSE 1
    /\ cur' = 0 /\ out' = <<>> /\ ret' = 0
    /\ UNCHANGED <<input, line, files, interactive, ignored, tty_pgrp, tty_attr, last_exit_code, assigned>>

\* the jobs cancel_all_jobs has marked are not waited for
WaitsFor_live(status) == status \in {RUNNING, SUSPENDED}

WaitsFor(status) == status \in {RUNNING, SUSPENDED, CANCELED}

\* smash_atexit: wait_for_all(), one turn of its loop: the k-th job
wait_for_all ==
    /\ pc = "waitall"
    /\ k <= Len(jobs)
    /\ IF WaitsFor(jobs[k].status)
       THEN LET sel == Selected(procs, jobs[k].pgid)
            IN IF sel = {}
               THEN \* waitpid fails with ECHILD: _exit(-1)
                    pc' = "dead" /\ k' = 0 /\ UNCHANGED <<jobs, procs>>
               ELSE \E p \in sel :
                       /\ procs[p].st = "zombie"
                       /\ procs' = [procs EXCEPT ![p] = Consume(@)]
                       /\ jobs' = [jobs EXCEPT ![k] =
                                     job_update_status(@, WaitStatus(procs[p]))]
                       /\ pc' = pc /\ k' = k + 1
       ELSE pc' = pc /\ k' = k + 1 /\ UNCHANGED <<jobs, procs>>
    /\ sent' = <<>> /\ out' = <<>> /\ ret' = 0
    /\ UNCHANGED <<input, line, files, interactive, ignored, tty_pgrp, tty_attr, last_exit_code, cur, assigned>>

\* smash_atexit: free_jobs(), after the loop of wait_for_all has ended
free_jobs ==
    /\ pc = "waitall"
    /\ k > Len(jobs)
    /\ jobs' = <<>>
    /\ pc' = "done" /\ k' = 0
    /\ sent' = <<>> /\ out' = <<>> /\ ret' = 0
    /\ UNCHANGED <<input, line, files, interactive, ignored, procs, tty_pgrp, tty_attr, last_exit_code, cur, assigned>>

\* ----------------------------------------------------------------- Next

Next ==
    \/ \E p \in DOMAIN procs : smash_wait_all_reap(p)
    \/ smash_wait_all_end
    \/ \E eof \in BOOLEAN : smash_main_readline(eof)
    \/ builtin_other
    \/ \E bare \in BOOLEAN : builtin_exit(bare)
    \/ \E fail \in 0..MaxJobs : builtin_jobs(fail)
    \/ \E cmd \in FgCmds : builtin_fg_cmd(cmd)
    \/ \E cmd \in BgCmds : builtin_bg_cmd(cmd)
    \/ \E cmd \in KillCmds : builtin_kill_cmd(cmd)
    \/ \E n \in 0..MaxCmds, bg \in BOOLEAN : exec_job_insert(n, bg)
    \/ exec_job_fork
    \/ exec_job_setpgid
    \/ run_in_foreground_wait
    \/ exec_job_wait
    \/ cancel_all_jobs
    \/ wait_for_all
    \/ free_jobs
    \/ \E p \in DOMAIN procs, ok \in BOOLEAN : launch_child(p, ok)
    \/ \E p \in DOMAIN procs, code \in ExitCodes : child_exit(p, code)
    \/ \E p \in DOMAIN procs : child_stop(p)
    \/ \E p \in DOMAIN procs : child_tcsetattr(p)
    \/ \E sig \in TtySignals : tty_signal(sig)

Spec == Init /\ [][Next]_vars

\* The shell that launches jobs, waits for them and exits, without the
\* builtins that change no process and without the terminal's signals.
NextFair ==
    \/ \E p \in DOMAIN procs : smash_wait_all_reap(p)
    \/ smash_wait_all_end
    \/ \E eof \in BOOLEAN : smash_main_readline(eof)
    \/ \E bare \in BOOLEAN : builtin_exit(bare)
    \/ \E n \in 0..MaxCmds, bg \in BOOLEAN : exec_job_insert(n, bg)
    \/ exec_job_fork
    \/ exec_job_setpgid
    \/ run_in_foreground_wait
    \/ exec_job_wait
    \/ cancel_all_jobs
    \/ wait_for_all
    \/ free_jobs
    \/ \E p \in DOMAIN procs, ok \in BOOLEAN : launch_child(p, ok)
    \/ \E p \in DOMAIN procs, code \in ExitCodes : child_exit(p, code)
    \/ \E p \in DOMAIN procs : child_stop(p)

\* The shell is a running process: where smash_atexit can take its next
\* step (a signal sent, a wait that has something to return, the table
\* freed) it takes it. A signal ends the process it is delivered to in the
\* step that sends it; nothing is assumed of a child that no signal reaches.
SpecFair ==
    /\ Init /\ [][NextFair]_vars
    /\ WF_vars(cancel_all_jobs)
    /\ WF_vars(wait_for_all)
    /\ WF_vars(free_jobs)

\* ------------------------------------------- the main loop, line by line
\* The same shell, with the lines it reads spelled out: `input` holds the
\* lines still to come, and the step taken for a line is the one smash_main
\* computes from its text.

MaxToks == 3

W_a == <<"a">>
W_b == <<"b">>
W_pipe == <<"|">>
W_amp == <<"&">>
W_gt == <<">">>
W_gtgt == <<">", ">">>
W_hash == <<"#">>
W_query == <<"$", "?">>

Toks == {W_exit, W_echo, W_ls, W_F, W_pipe, W_amp, W_gt, W_gtgt, W_hash}

RECURSIVE Join(_)
Join(ws) ==
    IF ws = <<>> THEN <<>>
    ELSE IF Len(ws) = 1 THEN ws[1]
    ELSE ws[1] \o <<" ">> \o Join(Tail(ws))

Lines == {Join(ws) : ws \in UNION {[1..n -> Toks] : n \in 0..MaxToks}}

EchoA == Join(<<W_echo, W_a, W_gt, W_F>>)
EchoB == Join(<<W_echo, W_b, W_gtgt, W_F>>)

EchoF == Join(<<W_echo, W_F>>)
EchoQuery == Join(<<W_echo, W_query>>)

Scripts ==
    {<<l>> : l \in Lines} \cup {<<EchoA, EchoB>>, <<W_ls, EchoQuery>>, <<W_ls, EchoF, EchoQuery>>}

\* exit statuses of the programs the lines run
LineExitCodes == {0, EXIT_FAILURE, 10, 255}

OldContents == <<"x", "\n">>

InitLine ==
    /\ interactive \in BOOLEAN
    /\ ignored = smash_setup(interactive, {})
    /\ pc = "reap1"
    /\ jobs = <<>>
    /\ procs = <<>>
    /\ tty_pgrp = shell_pgid
    /\ tty_attr = shell_termattr
    /\ last_exit_code = 0
    /\ cur = 0
    /\ k = 0
    /\ assigned = {}
    /\ sent = <<>>
    /\ out = <<>>
    /\ ret = 0
    /\ input \in Scripts
    /\ line = <<>>
    /\ files \in {<<>>, [q \in {W_F} |-> OldContents]}

\* smash.c:341-346: the next line, or the end of the input
io_readline ==
    /\ pc = "read"
    /\ IF input = <<>>
       THEN pc' = "cancel" /\ UNCHANGED <<input, line>>
       ELSE pc' = "reap2" /\ line' = Head(input) /\ input' = Tail(input)
    /\ sent' = <<>> /\ out' = <<>> /\ ret' = 0
    /\ UNCHANGED <<files, interactive, ignored, jobs, procs, tty_pgrp, tty_attr, last_exit_code,
                   cur, k, assigned>>

\* smash.c:370-372: nothing is left of the line
smash_main_empty ==
    /\ pc = "dispatch"
    /\ trimmed_buf(line) = <<>>
    /\ pc' = "reap1"
    /\ sent' = <<>> /\ out' = <<>> /\ ret' = 0
    /\ UNCHANGED <<input, line, files, interactive, ignored, jobs, procs, tty_pgrp, tty_attr,
                   last_exit_code, cur, k, assigned>>

\* builtin.c:250-302: the text goes to the shell's standard output
builtin_echo(cmd) ==
    /\ pc = "dispatch"
    /\ pc' = "reap1"
    /\ out' = <<echo_text(cmd, last_exit_code)>>
    /\ sent' = <<>> /\ ret' = 0
    /\ UNCHANGED <<input, line, files, interactive, ignored, jobs, procs, tty_pgrp, tty_attr,
                   last_exit_code, cur, k, assigned>>

\* smash.c:374-380: the callback of the builtin the line names
smash_main_builtin ==
    LET cmd == trimmed_buf(line)
        b == is_builtin(cmd)
    IN /\ cmd # <<>>
       /\ b # -1
       /\ CASE b = 0 -> builtin_exit(cmd = W_exit)
            [] b = 3 -> builtin_echo(cmd)
            [] b \in {1, 2} -> builtin_other

\* smash.c:382-401: parse_input, jobs_create, exec_job. A `>` that ends the
\* line hands NULL to strdup: the shell is killed there (crash), or goes on
\* with no path for the redirection.
smash_main_exec(crash) ==
    LET cmd == trimmed_buf(line)
        ui == parse_input(cmd)
    IN /\ pc = "dispatch"
       /\ cmd # <<>>
       /\ is_builtin(cmd) = -1
       /\ crash => ui.null
       /\ IF crash
          THEN /\ pc' = "dead"
               /\ sent' = <<>> /\ out' = <<>> /\ ret' = 0
               /\ UNCHANGED <<input, line, files, interactive, ignored, jobs, procs, tty_pgrp,
                              tty_attr, last_exit_code, cur, k, assigned>>
          ELSE exec_job_insert(Len(ui.commands), ui.is_background_command)

\* the program of child p writes a line to its standard output, a file
ProgramOutput == <<"o", "\n">>

child_write(p) ==
    /\ p \in DOMAIN procs
    /\ procs[p].st = "run"
    /\ procs[p].cpc = "prog"
    /\ procs[p].wr = "file"
    /\ files' = [files EXCEPT ![procs[p].rout] = @ \o ProgramOutput]
    /\ procs' = [procs EXCEPT ![p].wr = "done"]
    /\ UNCHANGED <<input, line, interactive, ignored, pc, jobs, tty_pgrp, tty_attr, last_exit_code,
                   cur, k, assigned, sent, out, ret>>

NextLine ==
    \/ \E p \in DOMAIN procs : smash_wait_all_reap(p)
    \/ smash_wait_all_end
    \/ io_readline
    \/ smash_main_empty
    \/ smash_main_builtin
    \/ \E crash \in BOOLEAN : smash_main_exec(crash)
    \/ exec_job_fork
    \/ exec_job_setpgid
    \/ run_in_foreground_wait
    \/ exec_job_wait
    \/ cancel_all_jobs
    \/ wait_for_all
    \/ free_jobs
    \/ \E p \in DOMAIN procs, ok \in BOOLEAN : launch_child(p, ok)
    \/ \E p \in DOMAIN procs, code \in LineExitCodes : child_exit(p, code)
    \/ \E p \in DOMAIN procs : child_write(p)
    \/ \E p \in DOMAIN procs : child_tcsetattr(p)
    \/ \E sig \in TtySignals : tty_signal(sig)

SpecLine == InitLine /\ [][NextLine]_vars

\* ------------------------------------------------------ the parser alone
\* parse_input applied to the lines the words below make up: the shell is
\* about to dispatch `line`, and `ret` receives the user_input_t

W_ampF == <<"&", "F">>
W_Famp == <<"F", "&">>

ParseToks == {W_ls, W_F, W_amp, W_ampF, W_Famp, W_gt, W_gtgt, W_pipe}

ParseLines == {Join(ws) : ws \in UNION {[1..n -> ParseToks] : n \in 0..MaxToks}}

InitParse ==
    /\ interactive \in BOOLEAN
    /\ ignored = smash_setup(interactive, {})
    /\ pc = "dispatch"
    /\ jobs = <<>>
    /\ procs = <<>>
    /\ tty_pgrp = shell_pgid
    /\ tty_attr = shell_termattr
    /\ last_exit_code = 0
    /\ cur = 0
    /\ k = 0
    /\ assigned = {}
    /\ sent = <<>>
    /\ out = <<>>
    /\ ret = 0
    /\ input = <<>>
    /\ line \in ParseLines
    /\ files = <<>>

\* smash.c:383, user_input_t *ui = parse_input(trimmed_buf)
smash_main_parse ==
    /\ pc = "dispatch"
    /\ ret' = parse_input(trimmed_buf(line))
    /\ pc' = "parsed"
    /\ UNCHANGED <<input, line, files, interactive, ignored, jobs, procs, tty_pgrp, tty_attr,
                   last_exit_code, cur, k, assigned, sent, out>>

NextParse == smash_main_parse

SpecParse == InitParse /\ [][NextParse]_vars



\* ------------------------------------------------------------- claims

\* C1: whenever the interactive shell has printed its prompt and blocks
\* reading a line, the terminal's foreground process group is shell_pgid and
\* the terminal mode is shell_termattr.
C1_PromptOwnsTerminal ==
    (interactive /\ pc = "read") =>
        (tty_pgrp = shell_pgid /\ tty_attr = shell_termattr)

\* C2: once the shutdown sequence (cancel_all_jobs, wait_for_all, free_jobs)
\* has run, every child the shell ever forked has been reaped.
C2_AllReapedAfterShutdown ==
    pc = "done" => \A p \in DOMAIN procs : procs[p].st = "reaped"

\* C3: is_in_bg is true exactly when the job's process group is not the
\* terminal's foreground group; stated where the shell blocks reading a line,
\* for the jobs that can hold the terminal (Running or Suspended).
C3_InBackgroundIffNotForeground ==
    (interactive /\ pc = "read") =>
        \A i \in 1..Len(jobs) :
            jobs[i].status \in {RUNNING, SUSPENDED} =>
                (jobs[i].is_in_bg <=> jobs[i].pgid # tty_pgrp)

Range(f) == {f[x] : x \in DOMAIN f}

\* the job `fg id` names is Suspended, or Running without holding the terminal
FgEligible(id) ==
    LET j == jobs_lookup_by_jobid(jobs, id)
    IN /\ j # 0
       /\ jobs[j].pgid # 0
       /\ \/ jobs[j].status = SUSPENDED
          \/ jobs[j].status = RUNNING /\ jobs[j].pgid # tty_pgrp

\* C4: `fg N` on a launched job that is Suspended, or Running while its group
\* does not hold the terminal, makes the job's pgid the terminal's foreground
\* group and blocks waiting on the job; SIGCONT goes to the pgid exactly when
\* the job was Suspended.
C4_FgForegroundsJob ==
    [][\A id \in JobIds :
          (interactive /\ FgEligible(id) /\ builtin_fg(id)) =>
              LET job == jobs[jobs_lookup_by_jobid(jobs, id)]
              IN /\ pc' = "fgwait"
                 /\ tty_pgrp' = job.pgid
                 /\ (<<job.pgid, SIGCONT>> \in Range(sent')) <=> (job.status = SUSPENDED)
      ]_vars

\* C5: exit_code is set exactly once, when the job completes: a job that is
\* not Exited or Aborted still has the exit_code it was created with, and once
\* a job is Exited or Aborted no step changes its status or exit_code while it
\* is in the table.
C5_FinishedIsFinal ==
    [][/\ \A j \in 1..Len(jobs') :
             ~Finished(jobs'[j].status) => jobs'[j].exitcode = 0
       /\ \A i \in 1..Len(jobs) : \A j \in 1..Len(jobs') :
             (Finished(jobs[i].status) /\ jobs'[j].uid = jobs[i].uid) =>
                 /\ jobs'[j].status = jobs[i].status
                 /\ jobs'[j].exitcode = jobs[i].exitcode
      ]_vars

\* a finished job is in the table when cancel_all_jobs has run and
\* wait_for_all is at its first job
C5_Witness ==
    /\ pc = "waitall" /\ k = 1
    /\ \E i \in 1..Len(jobs) : Finished(jobs[i].status) /\ jobs[i].exitcode # 0
    /\ \E i \in 1..Len(jobs) : jobs[i].status = CANCELED

\* C6: job ids strictly increase in table order.
C6_IdsIncrease ==
    \A i \in 1..Len(jobs) : \A j \in 1..Len(jobs) :
        i < j => jobs[i].jobid < jobs[j].jobid

\* two jobs, inserted one after the other, are in the table and a listing has
\* just walked both of them
C6_Witness ==
    /\ Len(jobs) = 2
    /\ pc = "reap1"
    /\ Len(out) = 2

\* C7 as claimed: no id value is ever assigned to two different jobs.
C7_IdsUniqueInSession ==
    \A a \in assigned : \A b \in assigned : a[2] = b[2] => a[1] = b[1]

\* C7 as amended: the jobs that are in the table at the same time have
\* different ids, also after an id has been assigned a second time.
C7_IdsUniqueInTable ==
    \A i \in 1..Len(jobs) : \A j \in 1..Len(jobs) :
        i # j => jobs[i].jobid # jobs[j].jobid

\* an id has been assigned a second time, to a job that is in the table
C7_Witness ==
    \E a \in assigned : \E b \in assigned :
        /\ a[1] < b[1] /\ a[2] = b[2]
        /\ \E i \in 1..Len(jobs) : jobs[i].uid = b[1]

ListingStep == \E f \in 0..MaxJobs : builtin_jobs(f)

Uids(js) == {js[i].uid : i \in 1..Len(js)}

\* number of the lines of a listing that report job uid
Reports(lines, uid) == Cardinality({n \in 1..Len(lines) : lines[n][1] = uid})

\* a job leaves the table only in a listing or in the final free_jobs
OnlyListingRemoves ==
    (Uids(jobs) \ Uids(jobs') # {}) => (ListingStep \/ free_jobs)

ListKeeps(j) == j.status \in {NEWJOB, RUNNING, SUSPENDED}

\* C10: a listing leaves every New, Running or Suspended job in the table,
\* unchanged and in the same order, sends no signal and changes no process.
C10_ListKeepsLiveJobs ==
    [][ListingStep =>
          /\ SelectSeq(jobs', ListKeeps) = SelectSeq(jobs, ListKeeps)
          /\ sent' = <<>>
          /\ procs' = procs
      ]_vars

\* a listing has written a Running job; the job is in the table and its
\* process runs
C10_Witness ==
    /\ pc = "reap1"
    /\ \E n \in 1..Len(out) :
          /\ out[n][3] = RUNNING
          /\ \E i \in 1..Len(jobs) :
                /\ jobs[i].uid = out[n][1]
                /\ jobs[i].status = RUNNING
                /\ jobs[i].pgid \in DOMAIN procs
                /\ procs[jobs[i].pgid].st = "run"

\* ---------------------------------------------------- claims: shutdown

RunningOrSuspended(status) == status \in {RUNNING, SUSPENDED}

StillToReap(status) == status \in {RUNNING, SUSPENDED, CANCELED}

\* the shell's process ends: normally after free_jobs, or killed / _exit
ShellEnds == pc \in {"cancel", "waitall"} /\ pc' \in {"done", "dead"}

\* snt holds SIGCONT and, after it, SIGTERM for process group pg
Signalled(snt, pg) ==
    \E a, b \in 1..Len(snt) :
        a < b /\ snt[a] = <<pg, SIGCONT>> /\ snt[b] = <<pg, SIGTERM>>

\* C11: a line whose first token is `exit` ends the shell: the shutdown
\* sequence starts, whether or not more text follows the token.
C11_ExitTerminates ==
    [][\A bare \in BOOLEAN : builtin_exit(bare) => pc' = "cancel"]_vars

\* C12: once the shell has called exit (builtin, end of input, fatal exit),
\* cancel_all_jobs signals every Running or Suspended job and the process
\* ends only after wait_for_all has waited for each of them.
C12_ShutdownOnEveryExit ==
    [][/\ cancel_all_jobs =>
             \A i \in 1..Len(jobs) :
                 RunningOrSuspended(jobs[i].status) => Signalled(sent', jobs[i].pgid)
       /\ ShellEnds =>
             /\ pc' = "done"
             /\ \A i \in 1..Len(jobs) : ~StillToReap(jobs[i].status)
      ]_vars

\* C13: cancel_all_jobs sends SIGCONT and then SIGTERM to the group of every
\* Running or Suspended job and marks it Canceled; it marks a job Canceled
\* only when both signals were sent, and leaves every other job alone.
C13_CancelSignalsAndMarks ==
    [][cancel_all_jobs =>
          \A i \in 1..Len(jobs) :
              /\ RunningOrSuspended(jobs[i].status) =>
                    /\ Signalled(sent', jobs[i].pgid)
                    /\ jobs'[i].status = CANCELED
              /\ (jobs'[i].status = CANCELED /\ jobs[i].status # CANCELED) =>
                    Signalled(sent', jobs[i].pgid)
              /\ ~RunningOrSuspended(jobs[i].status) =>
                    /\ jobs'[i] = jobs[i]
                    /\ \A n \in 1..Len(sent') :
                          sent'[n][1] = jobs[i].pgid =>
                              \E h \in 1..Len(jobs) :
                                  RunningOrSuspended(jobs[h].status) /\ jobs[h].pgid = jobs[i].pgid
      ]_vars

\* C14: wait_for_all records for each job it waits for Exited with the exit
\* status or Aborted with the terminating signal, and when it returns no job
\* is Running, Suspended or Canceled.
C14_WaitForAllFinishesJobs ==
    [][/\ (wait_for_all /\ pc' = "waitall" /\ StillToReap(jobs[k].status)) =>
             \E p \in DOMAIN procs :
                 /\ procs[p].st = "zombie" /\ procs'[p].st = "reaped"
                 /\ jobs'[k].status =
                       (IF procs[p].xkind = "exited" THEN EXITED ELSE ABORTED)
                 /\ jobs'[k].exitcode = procs[p].xval
       /\ free_jobs => \A i \in 1..Len(jobs) : ~StillToReap(jobs[i].status)
      ]_vars

\* wait_for_all is about to return: it has reaped a job that was canceled
C14_Witness ==
    /\ pc = "waitall"
    /\ k > Len(jobs)
    /\ \E i \in 1..Len(jobs) :
          jobs[i].status = ABORTED /\ jobs[i].exitcode = SIGTERM

\* C15: no job is Canceled before the shutdown sequence; only
\* cancel_all_jobs sets Canceled; and no job is Canceled any more when
\* wait_for_all has returned.
C15_CanceledOnlyInShutdown ==
    [][/\ pc \notin {"cancel", "waitall", "dead", "done"} =>
             \A i \in 1..Len(jobs) : jobs[i].status # CANCELED
       /\ (\E i \in 1..Len(jobs') :
              /\ jobs'[i].status = CANCELED
              /\ \A h \in 1..Len(jobs) :
                    jobs[h].uid = jobs'[i].uid => jobs[h].status # CANCELED)
          => cancel_all_jobs
       /\ free_jobs => \A i \in 1..Len(jobs) : jobs[i].status # CANCELED
      ]_vars

\* two jobs were canceled; wait_for_all has reaped the first, which is now
\* Aborted, and the second is still Canceled
C15_Witness ==
    /\ pc = "waitall"
    /\ k = 2
    /\ Len(jobs) = 2
    /\ jobs[1].status = ABORTED
    /\ jobs[2].status = CANCELED

\* ------------------------------------------------ claims: bg and kill

\* table position of the job with id `id`, 0 when there is none
JobWithId(id) ==
    IF \E i \in 1..Len(jobs) : jobs[i].jobid = id
    THEN CHOOSE i \in 1..Len(jobs) : jobs[i].jobid = id
    ELSE 0

\* C16: `bg N` on a Suspended job marks it Running and in the background
\* and sends SIGCONT to its group, the terminal's foreground group staying
\* as it is; on an unknown id or a Running job it fails, changes no job and
\* sends no signal.
C16_BgResumesSuspended ==
    [][\A id \in JobIds : builtin_bg(id) =>
          LET j == JobWithId(id)
          IN /\ (j # 0 /\ jobs[j].status = SUSPENDED) =>
                   /\ jobs' = [jobs EXCEPT ![j].status = RUNNING, ![j].is_in_bg = TRUE]
                   /\ sent' = <<<<jobs[j].pgid, SIGCONT>>>>
                   /\ tty_pgrp' = tty_pgrp
                   /\ pc' = "reap1"
             /\ (j = 0 \/ (j # 0 /\ jobs[j].status = RUNNING)) =>
                   /\ jobs' = jobs /\ procs' = procs /\ sent' = <<>> /\ ret' < 0
      ]_vars

\* C17: `kill -SIG N` sends SIG to the group of job N exactly when a job
\* with id N is in the table and is Running or Suspended; otherwise it sends
\* nothing and no process changes.
C17_KillOnlyLiveJobs ==
    [][\A sig \in KillSignals, id \in JobIds : builtin_kill(sig, id) =>
          LET j == JobWithId(id)
          IN IF j # 0 /\ jobs[j].status \in {RUNNING, SUSPENDED}
             THEN sent' = <<<<jobs[j].pgid, sig>>>>
             ELSE sent' = <<>> /\ procs' = procs
      ]_vars

\* ------------------------------------------------ claims: the input line

Blanks == {" ", "\t", "\r", "\n"}

BuiltinNames == {W_exit, W_cd, W_pwd, W_echo, W_jobs, W_fg, W_bg, W_kill}

FirstToken(l) == Tokens(trimmed_buf(l), Blanks)[1]

NamesBuiltin(l) ==
    /\ Tokens(trimmed_buf(l), Blanks) # <<>>
    /\ FirstToken(l) \in BuiltinNames

\* the shell leaves the dispatch of the line it has read
Dispatches == pc = "dispatch" /\ pc' # "dispatch"

\* C18: a line whose first blank-delimited token, after trimming, is the name
\* of a builtin goes to that builtin's handler with the whole trimmed line
\* (echo prints all of its tokens, exit ends the shell only when the line is
\* the bare word) and is never parsed: its dispatch changes neither the job
\* table nor the processes nor any file, and while it is the current line no
\* job is inserted, no child is forked and no file changes.
C18_BuiltinSkipsParsing ==
    [][/\ (Dispatches /\ NamesBuiltin(line)) =>
            /\ jobs' = jobs /\ assigned' = assigned /\ procs' = procs
            /\ files' = files /\ cur' = cur /\ pc' \in {"reap1", "cancel"}
            /\ FirstToken(line) = W_echo =>
                   out' = <<echo_text(trimmed_buf(line), last_exit_code)>>
            /\ FirstToken(line) = W_exit =>
                   (pc' = "cancel" <=> trimmed_buf(line) = W_exit)
       /\ (line # <<>> /\ line' = line /\ NamesBuiltin(line)) =>
            /\ assigned' = assigned /\ Len(jobs') <= Len(jobs)
            /\ DOMAIN procs' = DOMAIN procs /\ files' = files]_vars

\* `echo > F` has been handled: its text is on the shell's output, F is as it
\* was and there is neither a job nor a child
C18_Witness ==
    /\ line = Join(<<W_echo, W_gt, W_F>>)
    /\ pc = "reap1"
    /\ out = <<<<">", " ", "F", " ", "\n">>>>
    /\ jobs = <<>> /\ procs = <<>>
    /\ files = <<>>

\* C19: once `echo a > F` and then `echo b >> F` have been entered, file F
\* holds the two lines a and b.
C19_EchoRedirectAppends ==
    (line = EchoB /\ input = <<>> /\ pc \notin {"reap2", "dispatch"}) =>
        /\ W_F \in DOMAIN files
        /\ files[W_F] = <<"a", "\n", "b", "\n">>

LineIsEmptyPipeline ==
    LET cmd == trimmed_buf(line)
        ui == parse_input(cmd)
    IN /\ cmd # <<>>
       /\ is_builtin(cmd) = -1
       /\ \/ ui.commands = <<>>
          \/ \E i \in 1..Len(ui.commands) : ui.commands[i].argv = <<>>

\* C20: a line that parses to no command, or to a command without a word, is
\* skipped: the main loop goes on to the next line, the job table and the
\* processes are as before.
C20_EmptyPipelineSkipped ==
    [][(Dispatches /\ LineIsEmptyPipeline) =>
           pc' = "reap1" /\ jobs' = jobs /\ procs' = procs]_vars

\* ---------------------------------------------------- claims: the parser

\* the blank-delimited tokens of all the commands of the line
LineTokens(l) == Tokens(trimmed_buf(l), Blanks \cup {"|"})

EndsInAmp(t) == t[Len(t)] = "&"

WithoutAmp(t) == IF EndsInAmp(t) THEN SubSeq(t, 1, Len(t) - 1) ELSE t

StartsRedirection(t) ==
    t # <<>> /\ (t[1] \in {">", "<"} \/ (Len(t) > 1 /\ t[1] = "2" /\ t[2] = ">"))

\* the words and the paths the parsed line holds
ParsedTexts(ui) ==
    UNION {{ui.commands[i].argv[n] : n \in 1..Len(ui.commands[i].argv)}
              \cup {ui.commands[i].redirect_stdout, ui.commands[i].redirect_stderr,
                    ui.commands[i].redirect_stdin} : i \in 1..Len(ui.commands)}

\* C21: the background flag of the parsed line is set exactly when one of its
\* tokens is `&` or ends in `&`; of such a token only the trailing `&` goes,
\* and what is left is a redirection, a path or a word of argv; no other
\* token sets the flag or is dropped.
C21_AmpSetsBackground ==
    pc = "parsed" =>
        /\ ret.is_background_command <=>
              \E i \in 1..Len(LineTokens(line)) :
                  LineTokens(line)[i] = W_amp \/ EndsInAmp(LineTokens(line)[i])
        /\ \A i \in 1..Len(LineTokens(line)) :
              LET t == LineTokens(line)[i]
              IN t # W_amp =>
                    \/ StartsRedirection(WithoutAmp(t))
                    \/ WithoutAmp(t) \in ParsedTexts(ret)

\* ------------------------------------------------- claims: wait statuses

\* the step takes the report of child p off the system: a zombie is reaped,
\* or the stop / continue that was to be reported no longer is
Consumed(p) ==
    /\ p \in DOMAIN procs
    /\ \/ procs[p].st = "zombie" /\ procs'[p].st = "reaped"
       \/ /\ procs[p].rep # "none" /\ procs'[p].rep = "none"
          /\ procs'[p].st = procs[p].st

\* what the report of process pr says, and its number
ReportKind(pr) == IF pr.st = "zombie" THEN pr.xkind ELSE pr.rep
ReportValue(pr) == IF pr.st = "zombie" THEN pr.xval ELSE 0

\* table position of the job the shell applies the report of p to (0: none)
Owner(p) ==
    IF pc \in {"reap1", "reap2"}
    THEN IF \E i \in 1..Len(jobs) : jobs[i].pgid = p
         THEN CHOOSE i \in 1..Len(jobs) :
                 jobs[i].pgid = p /\ \A h \in 1..(i - 1) : jobs[h].pgid # p
         ELSE 0
    ELSE IF pc = "waitall" THEN k
    ELSE cur

\* C22: a stopped child makes its job Suspended and a continued one Running,
\* the exit code staying as it is; a child killed by a signal makes it Aborted
\* with the signal as exit code; a child that exited makes it Exited with the
\* exit status as exit code.
C22_StatusTable ==
    [][\A p \in DOMAIN procs :
          (Consumed(p) /\ Owner(p) # 0) =>
              LET old == jobs[Owner(p)]
                  new == jobs'[Owner(p)]
                  kind == ReportKind(procs[p])
              IN /\ kind = "stopped" =>
                        new.status = SUSPENDED /\ new.exitcode = old.exitcode
                 /\ kind = "continued" =>
                        new.status = RUNNING /\ new.exitcode = old.exitcode
                 /\ kind = "signaled" =>
                        new.status = ABORTED /\ new.exitcode = ReportValue(procs[p])
                 /\ kind = "exited" =>
                        new.status = EXITED /\ new.exitcode = ReportValue(procs[p])]_vars

\* one job was killed by ^C and the next one exited with a failure: the table
\* shows both
C22_Witness ==
    /\ Len(jobs) = 2
    /\ jobs[1].status = ABORTED /\ jobs[1].exitcode = SIGINT
    /\ jobs[2].status = EXITED /\ jobs[2].exitcode = EXIT_FAILURE

\* ------------------------------------------------ claims: the exit code

\* run_in_foreground returns from job_wait with the job finished
ForegroundJobCompletes ==
    /\ interactive
    /\ pc = "fgwait" /\ pc' # "fgwait"
    /\ jobs'[cur].status \in {EXITED, ABORTED}

\* C23: in interactive mode, when a foreground job has completed, by exiting
\* or by a signal, last_exit_code is the exit code recorded in the job.
C23_ExitCodeOfForegroundJob ==
    [][ForegroundJobCompletes => last_exit_code' = jobs'[cur].exitcode]_vars

DecimalDigits == <<"0", "1", "2", "3", "4", "5", "6", "7", "8", "9">>

\* the decimal form of a number below 1000
DecimalForm(n) ==
    IF n < 10 THEN <<DecimalDigits[n + 1]>>
    ELSE IF n < 100 THEN <<DecimalDigits[(n \div 10) + 1], DecimalDigits[(n % 10) + 1]>>
    ELSE <<DecimalDigits[(n \div 100) + 1], DecimalDigits[((n \div 10) % 10) + 1],
           DecimalDigits[(n % 10) + 1]>>

\* the line at hand is `echo $?`, and the command of the first line, run in
\* the foreground, has exited
EchoAfterExit ==
    /\ Dispatches
    /\ line = EchoQuery
    /\ jobs # <<>>
    /\ jobs[1].status = EXITED /\ ~jobs[1].bgcmd

\* C24: when a foreground command has exited with code K, `echo $?`, entered
\* next or after other builtins, writes K in decimal, a blank and a newline.
C24_EchoPrintsExitCode ==
    [][EchoAfterExit => out' = <<DecimalForm(jobs[1].exitcode) \o <<" ", "\n">>>>]_vars

\* `ls` has exited with 255, `echo F` has run, and `echo $?` has written `255 `
C24_Witness ==
    /\ line = EchoQuery
    /\ pc = "reap1"
    /\ Len(jobs) = 1 /\ jobs[1].status = EXITED /\ jobs[1].exitcode = 255
    /\ out = <<<<"2", "5", "5", " ", "\n">>>>

\* ------------------------------------------- claims: non-interactive mode

\* C25: in non-interactive mode exec_job goes from its last fork to job_wait
\* whether or not the line had `&`, job_wait's return sets last_exit_code to
\* the exit code of that job, and no job of the table is Running when the
\* shell reads the next line.
C25_NonInteractiveWaits ==
    [][~interactive =>
         /\ pc = "fork" => pc' \in {"fork", "niwait"}
         /\ (pc = "niwait" /\ pc' # "niwait") =>
                /\ last_exit_code' = jobs'[cur].exitcode
                /\ jobs'[cur].status # RUNNING
         /\ pc' = "read" => \A i \in 1..Len(jobs') : jobs'[i].status # RUNNING]_vars

\* ------------------------------------------------ claims: process groups

\* the step forks a child for the job at hand; p is the new child
Forks(p) == pc = "fork" /\ p \in DOMAIN procs' /\ p \notin DOMAIN procs

\* child p replaces its program image in this step
Execs(p) == p \in DOMAIN procs /\ procs[p].cpc = "exec" /\ procs'[p].cpc = "prog"

\* the fork of the leftmost command makes its pid the pgid of the job, the
\* later forks leave the pgid alone
PgidIsLeader ==
    \A p \in DOMAIN procs' :
        Forks(p) => jobs'[cur].pgid = IF k = 1 THEN p ELSE jobs[cur].pgid

\* C26: the pgid of a job is the pid of its leftmost command, and every
\* child is in the process group job.pgid when it replaces its image, in
\* interactive and in non-interactive mode.
C26_ChildrenInJobGroup ==
    [][/\ PgidIsLeader
       /\ \A p \in DOMAIN procs : Execs(p) => procs'[p].pgrp = procs[p].tgt]_vars

\* C26, amended: the pgid of a job is the pid of its leftmost command in
\* both modes; in interactive mode every child is in the process group
\* job.pgid when it replaces its image, in non-interactive mode it is still
\* in the group of the shell.
C26_ChildrenInJobGroupInteractive ==
    [][/\ PgidIsLeader
       /\ \A p \in DOMAIN procs :
             Execs(p) => procs'[p].pgrp = IF interactive THEN procs[p].tgt ELSE shell_pgid]_vars

\* an interactive pipeline of two commands, both running their programs in
\* the group of the first
C26_Witness ==
    /\ interactive
    /\ \E i \in 1..Len(jobs) :
          /\ jobs[i].ncmds = 2
          /\ jobs[i].pgid # 0
          /\ \E p, q \in DOMAIN procs :
                /\ p = jobs[i].pgid /\ q # p
                /\ procs[p].cpc = "prog" /\ procs[q].cpc = "prog"
                /\ procs[p].st = "run" /\ procs[q].st = "run"
                /\ procs[p].pgrp = jobs[i].pgid /\ procs[q].pgrp = jobs[i].pgid

\* child p has been forked and the shell has not yet come to its own setpgid
\* for it
JustForked(p) == pc = "psetpgid" /\ p \in DOMAIN procs /\ \A q \in DOMAIN procs : q <= p

EntersForeground == pc # "fgwait" /\ pc' = "fgwait"

\* cont is set (the caller is the builtin fg) and the job was not Running
ResumesJob == pc = "dispatch" /\ jobs[cur'].status # RUNNING

\* job_wait has something to return with: a report of the child it waits
\* for, or no such child
WaitReturns ==
    \/ \E p \in DOMAIN procs : Consumed(p)
    \/ \A p \in DOMAIN procs :
          procs[p].st = "reaped" \/
          (jobs[cur].pgid # p /\ (jobs[cur].pgid # 0 \/ procs[p].pgrp # shell_pgid))

\* C28: run_in_foreground first gives the terminal to the group of the job;
\* then, only when cont is set and the job was not Running, it puts the saved
\* mode of the job on the terminal and sends SIGCONT; then it waits; then it
\* takes the terminal back. A call that fails to hand over the terminal sends
\* nothing, and while the wait lasts the terminal does not go back to the
\* shell.
C28_ForegroundOrder ==
    [][/\ EntersForeground =>
             /\ tty_pgrp' = jobs'[cur'].pgid
             /\ IF ResumesJob
                THEN /\ sent' = <<<<jobs[cur'].pgid, SIGCONT>>>>
                     /\ tty_attr' = jobs[cur'].termattr
                ELSE sent' = <<>> /\ tty_attr' = tty_attr
       /\ (pc # "cancel" /\ pc' = "cancel") => sent' = <<>> /\ tty_pgrp' = tty_pgrp
       /\ (pc = "fgwait" /\ pc' = "fgwait") => tty_pgrp' # shell_pgid
       /\ (pc = "fgwait" /\ pc' # "fgwait") =>
             /\ WaitReturns
             /\ tty_pgrp' = shell_pgid /\ tty_attr' = shell_termattr]_vars

\* fg has resumed a suspended job: its group owns the terminal, the terminal
\* has the mode saved with the job, SIGCONT was sent and the shell waits
C28_Witness ==
    /\ pc = "fgwait"
    /\ sent = <<<<jobs[cur].pgid, SIGCONT>>>>
    /\ tty_pgrp = jobs[cur].pgid
    /\ tty_attr = "raw"
    /\ jobs[cur].termattr = "raw"

\* ------------------------------------------------------ claims: reaping

\* a state change of the child that no wait has reported yet
Pending(pr) == pr.st = "zombie" \/ pr.rep \in {"stopped", "continued"}

Reaping == pc \in {"reap1", "reap2"}

\* C29: when a reaping point is over, no child has a state change that is
\* still to be reported: smash_wait_all goes on until the wait finds nothing.
C29_ReapAppliesEveryChange ==
    [][(Reaping /\ pc' \notin {"reap1", "reap2"}) =>
           \A p \in DOMAIN procs' : ~Pending(procs'[p])]_vars

\* C30: a turn of the main loop reaps, reads, reaps again and only then
\* dispatches the line; the second reaping leaves none of the state changes
\* that were pending at its last step unapplied, so the builtin sees them.
C30_ReapBeforeDispatch ==
    [][/\ pc = "reap1" => pc' \in {"reap1", "read"}
       /\ pc = "read" => pc' \in {"read", "reap2", "cancel"}
       /\ pc = "reap2" => pc' \in {"reap2", "dispatch"}
       /\ (pc = "reap2" /\ pc' = "dispatch") =>
             \A p \in DOMAIN procs : Pending(procs[p]) => ~Pending(procs'[p])]_vars

\* -------------------------------------------------------- claims: pipes

\* position in its pipeline of the command child p runs: the children of a
\* pipeline have the pids that follow the pid of the first
StageOf(p) == p - procs[p].tgt + 1

\* C31: once the pipeline is forked the shell holds no pipe end, and a child
\* that runs its program holds only the write end of the pipe behind its
\* command and the read end of the pipe before it.
C31_PipeEndsOwnedByTheirStage ==
    /\ pc \notin {"fork", "psetpgid"} => shell_fds = {}
    /\ \A p \in DOMAIN procs :
          (procs[p].cpc = "prog" /\ procs[p].st \in {"run", "stop"}) =>
              \A e \in procs[p].fds :
                  \/ e = <<StageOf(p), "w">>
                  \/ e = <<StageOf(p) - 1, "r">>

\* ------------------------------------------------ claims: dispositions

JobControlSignals == {SIGINT, SIGQUIT, SIGTSTP, SIGTTIN, SIGTTOU}

\* child p replaces its program image in this step
ReplacesImage(p) ==
    /\ p \in DOMAIN procs
    /\ procs[p].cpc = "exec"
    /\ procs'[p].cpc = "prog"

\* C32 as stated: a child that replaces its program image ignores none of
\* SIGINT, SIGQUIT, SIGTSTP, SIGTTIN, SIGTTOU, SIGCHLD, and the interactive
\* shell ignores the first five of them at every moment.
C32_DefaultAtExec ==
    /\ [](interactive => JobControlSignals \subseteq ignored)
    /\ [][\A p \in DOMAIN procs :
             ReplacesImage(p) =>
                 procs'[p].ign \cap (JobControlSignals \cup {SIGCHLD}) = {}]_vars

\* C32, amended: the interactive shell ignores the five job-control signals
\* at every moment; a child of the interactive shell that replaces its
\* program image ignores none of the six signals, and a child of the
\* non-interactive shell ignores exactly what the shell ignores.
C32_DefaultAtExecInteractive ==
    /\ [](interactive => JobControlSignals \subseteq ignored)
    /\ [][\A p \in DOMAIN procs :
             ReplacesImage(p) =>
                 IF interactive
                 THEN procs'[p].ign \cap (JobControlSignals \cup {SIGCHLD}) = {}
                 ELSE procs'[p].ign = ignored]_vars

\* a child of the interactive shell runs its program while the shell ignores
\* the job-control signals
C32_Witness ==
    /\ interactive
    /\ JobControlSignals \subseteq ignored
    /\ \E p \in DOMAIN procs :
          procs[p].cpc = "prog" /\ procs[p].st = "run" /\ procs[p].ign = {}

\* ------------------------------------- claims: invalid fg, bg and kill

\* the characters of text are digits, at least one
AllDigits(text) == text # <<>> /\ \A i \in 1..Len(text) : text[i] \in DigitChars

\* the words of a line of fg, bg or kill behind the name
ArgWords(cmd) == Tail(Tokens(cmd, {" "}))

\* the job a number written as text names, 0 when there is none
NamedJob(text) ==
    IF \E i \in 1..Len(jobs) : DecimalForm(jobs[i].jobid) = text
    THEN CHOOSE i \in 1..Len(jobs) : DecimalForm(jobs[i].jobid) = text
    ELSE 0

\* fg, bg: the argument is missing, is no number, or names no job
InvalidJobLine(cmd) ==
    \/ ArgWords(cmd) = <<>>
    \/ ~AllDigits(ArgWords(cmd)[1])
    \/ NamedJob(ArgWords(cmd)[1]) = 0

\* kill: an argument is missing, the signal is not `-` and a number, the
\* job id is no number or names no job
InvalidKillLine(cmd) ==
    LET w == ArgWords(cmd)
    IN \/ Len(w) < 2
       \/ w[1][1] # "-" \/ ~AllDigits(Tail(w[1]))
       \/ ~AllDigits(w[2])
       \/ NamedJob(w[2]) = 0

\* the line at hand is an invalid use of fg, bg or kill that is carried out
InvalidUse ==
    \/ \E cmd \in FgCmds : InvalidJobLine(cmd) /\ builtin_fg_cmd(cmd)
    \/ \E cmd \in BgCmds : InvalidJobLine(cmd) /\ builtin_bg_cmd(cmd)
    \/ \E cmd \in KillCmds : InvalidKillLine(cmd) /\ builtin_kill_cmd(cmd)

FailsBeforeProgram(p) ==
    /\ \E ok \in BOOLEAN : launch_child(p, ok)
    /\ procs'[p].st = "zombie"

\* C34: a child that ends in launch_child ends itself alone, with a status
\* that is not zero: every other process and the shell are as before.
C34_FailingChildEndsItselfOnly ==
    [][\A p \in DOMAIN procs :
          FailsBeforeProgram(p) =>
              /\ \A q \in DOMAIN procs \ {p} : procs'[q] = procs[q]
              /\ pc' = pc
              /\ procs'[p].xkind = "exited" => procs'[p].xval # 0]_vars

\* -------------------------------------- claims: the end of a pipeline

\* the processes forked for the job at table position i that have not
\* terminated
UnterminatedOf(i) ==
    {p \in DOMAIN procs : procs[p].st \in {"run", "stop"} /\ procs[p].tgt = jobs[i].pgid}

\* C35: a job that is Exited or Aborted has no process that has not
\* terminated; so the shell never has the terminal back from a foreground
\* job, marked as ended, of which a process still runs.
C35_EndedOnlyWhenAllTerminated ==
    \A i \in 1..Len(jobs) :
        jobs[i].status \in {EXITED, ABORTED} => UnterminatedOf(i) = {}

\* ------------------------------------------- claims: the saved mode

\* C36: where run_in_foreground resumes a job (cont set, the job not
\* Running) the mode it writes to the terminal is one the shell has read
\* from the terminal when that job gave the terminal up, never the zeroed
\* mode the job was created with.
C36_RestoredModeWasCaptured ==
    [][(EntersForeground /\ ResumesJob) =>
          /\ jobs[cur'].termattr # "zero"
          /\ tty_attr' # "zero"]_vars

\* ------------------------------------------ claims: shutdown terminates

\* C37: smash_atexit, once begun, comes to its end: the shell's process
\* ends, normally or by _exit or a signal.
C37_ShutdownTerminates == (pc = "cancel") ~> (pc \in {"done", "dead"})

\* ------------------------------------------ claims: background launch

\* the job of the line at hand was entered with `&`
LaunchesInBackground == pc \in {"fork", "psetpgid"} /\ jobs[cur].bgcmd

\* child p, forked for a job entered with `&`, takes a step of launch_child
BackgroundChildStep(p) ==
    /\ \E ok \in BOOLEAN : launch_child(p, ok)
    /\ \E i \in 1..Len(jobs) : jobs[i].bgcmd /\ jobs[i].pgid = procs[p].tgt

\* a step of the shell or of a child that is part of putting a job in the
\* background: exec_job for a line with `&`, launch_child of its children,
\* the builtin bg
BackgroundLaunchStep ==
    \/ LaunchesInBackground /\ pc' # pc
    \/ \E p \in DOMAIN procs : BackgroundChildStep(p)
    \/ \E cmd \in BgCmds : builtin_bg_cmd(cmd)

\* C38: in interactive mode no step that puts a job in the background
\* changes the foreground group or the mode of the terminal.
C38_BackgroundLeavesTerminal ==
    [][(interactive /\ BackgroundLaunchStep) =>
          /\ tty_pgrp' = tty_pgrp
          /\ tty_attr' = tty_attr]_vars

\* a job entered with `&` runs its program in the background while the
\* terminal is the shell's
C38_Witness ==
    /\ interactive
    /\ tty_pgrp = shell_pgid
    /\ \E i \in 1..Len(jobs) :
          /\ jobs[i].bgcmd /\ jobs[i].is_in_bg /\ jobs[i].status = RUNNING
          /\ jobs[i].pgid \in DOMAIN procs
          /\ procs[jobs[i].pgid].cpc = "prog"
          /\ procs[jobs[i].pgid].st = "run"

\* ------------------------------- claims: what changes last_exit_code

\* the wait for the job at hand (run_in_foreground's, or exec_job's when
\* not interactive) returns and the job has become Exited or Aborted
WaitedJobCompletes ==
    /\ pc \in {"fgwait", "niwait"} /\ pc' # pc
    /\ jobs[cur].status \notin {EXITED, ABORTED}
    /\ jobs'[cur].status \in {EXITED, ABORTED}

\* C39: last_exit_code changes only in the step in which the wait for a
\* foreground job, or for the job of a non-interactive shell, returns with
\* the job completed.
C39_ExitCodeChangesOnlyAtCompletion ==
    [][last_exit_code' # last_exit_code => WaitedJobCompletes]_vars

\* ---------------------------------------- claims: kill and the table

\* the line at hand is a line of kill and its builtin is run
KillIsRun == \E cmd \in KillCmds : builtin_kill_cmd(cmd)

\* C40: the builtin kill leaves the job table as it is, status, exit code
\* and background flag of the job it signals included, whatever the signal
\* does to the processes.
C40_KillLeavesTable ==
    [][KillIsRun => jobs' = jobs]_vars

\* kill has just sent SIGTERM to the group of a job: its process is dead and
\* the job is still listed as Running
C40_Witness ==
    /\ pc = "reap1"
    /\ \E i \in 1..Len(jobs) :
          /\ sent = <<<<jobs[i].pgid, SIGTERM>>>>
          /\ jobs[i].status = RUNNING
          /\ jobs[i].pgid \in DOMAIN procs
          /\ procs[jobs[i].pgid].st = "zombie"
          /\ procs[jobs[i].pgid].xkind = "signaled"

====
